---- MODULE Spec2Model ----
(***************************************************************************)
(* Model of the kachi metering-and-rating pipeline:                        *)
(*   - the rating engine (apps/rater/main.py, lib/rating_policies.py),      *)
(*   - success-fee settlement as the rating engine calls it                 *)
(*     (lib/success_fees.py),                                               *)
(*   - the RatedUsage store written by RatingService,                       *)
(*   - the import of external metrics (apps/metrics_collector/main.py),     *)
(*   - the deriver of meter readings from raw events (apps/deriver).        *)
(*                                                                         *)
(* Decimal values are fixed-point integers in units of 1/Scale.  The model  *)
(* inputs are chosen so that every product and quotient taken is exact.     *)
(* An optional value (Python None or a value) is a set: {} or {v}.          *)
(* A meter key "llm.tokens" is the tuple of its dotted segments.            *)
(***************************************************************************)
EXTENDS Integers, Sequences, FiniteSets, TLC

VARIABLES
    meter_readings,        \* rows of the meter_readings table
    rated_usage,           \* rows of the rated_usage table
    outcome_verifications, \* rows of the outcome verification table
    workflow_runs,         \* rows of the workflow_runs table
    cost_records,          \* rows of the cost_records table
    now,                   \* datetime.utcnow()
    policy,                \* the RatingPolicy handed to the rating engine
    result,                \* what the last rate_customer_period call produced
    store_result,          \* what the last _store_rated_usage call produced
    store_calls,           \* completed or failed rate_and_store calls
    tier_pricing,          \* the MeterPricing handed to calculate_tiered_pricing
    tier_usages,           \* the two usages priced under it
    tier_amounts,          \* the amounts calculate_tiered_pricing returned for them
    customers,             \* ids of the rows of the customers table
    collection,            \* a MetricCollectionResult and the MetricMapping it is for
    import_calls,          \* completed _transform_and_store_metrics calls
    raw_events,            \* rows of the raw_events table
    deriver_log,           \* the EventProcessor calls made so far, oldest first
    outcome_call,          \* the outcome or success-fee call that has just returned
    ingest_calls,          \* completed process_otel_export calls
    ingest_response,       \* what the last process_otel_export call produced
    tasks,                 \* the calls running concurrently, each with its position
    daily_runs             \* the daily rating cycles run so far, oldest first

rating_vars ==
    <<rated_usage, outcome_verifications, workflow_runs, cost_records, now, policy,
      result, store_result, store_calls>>

tier_vars == <<tier_pricing, tier_usages, tier_amounts>>

import_vars == <<customers, collection, import_calls>>

deriver_vars == <<raw_events, deriver_log>>

outcome_vars == <<outcome_call>>

ingest_vars == <<ingest_calls, ingest_response>>

race_vars == <<tasks>>

cycle_vars == <<daily_runs>>

vars ==
    <<meter_readings, rating_vars, tier_vars, import_vars, deriver_vars, outcome_vars,
      ingest_vars, race_vars, cycle_vars>>

----------------------------------------------------------------------------
(* Decimal arithmetic *)

Scale == 100

Dec(n) == n * Scale

Mul(a, b) == (a * b) \div Scale

Max(a, b) == IF a >= b THEN a ELSE b

Min(a, b) == IF a <= b THEN a ELSE b

Get(f, k, default) == IF k \in DOMAIN f THEN f[k] ELSE default

EmptyMap == [x \in {} |-> 0]

\* Python's None where it is compared with a value
None == "None"

RECURSIVE SumSeq(_)
SumSeq(s) == IF s = <<>> THEN 0 ELSE Head(s) + SumSeq(Tail(s))

RECURSIVE SumValue(_)
SumValue(rows) ==
    IF rows = {} THEN 0
    ELSE LET r == CHOOSE x \in rows : TRUE
         IN r.value + SumValue(rows \ {r})

----------------------------------------------------------------------------
(* Meter catalog *)

\* The length of the deriver's windows (window_minutes); times are in minutes.
WindowMinutes == 5

WF == <<"workflow", "completed">>
OT == <<"outcome", "ticket_resolved">>
OD == <<"outcome", "document_processed">>
LLM == <<"llm", "tokens">>
API == <<"api", "calls">>
NEU == <<"custom", "metric">>

\* str.startswith(prefix) for a dotted prefix such as "llm."
StartsWith(meter_key, prefix) == Len(meter_key) > 1 /\ meter_key[1] = prefix

work_prefixes == {"workflow", "outcome", "step", "task"}

edge_prefixes == {"api", "llm", "compute", "storage", "net"}

is_work_meter(meter_key) == \E prefix \in work_prefixes : StartsWith(meter_key, prefix)

is_edge_meter(meter_key) == \E prefix \in edge_prefixes : StartsWith(meter_key, prefix)

----------------------------------------------------------------------------
(* Tiered pricing *)

Tier(min_usage, max_usage, unit_price, flat_fee) ==
    [min_usage |-> min_usage, max_usage |-> max_usage,
     unit_price |-> unit_price, flat_fee |-> flat_fee]

MeterPricing(meter_key, included_quota, tiers) ==
    [meter_key |-> meter_key, included_quota |-> included_quota, tiers |-> tiers]

\* The loop of calculate_tiered_pricing from tier i on.
RECURSIVE TierWalk(_, _, _, _, _)
TierWalk(tiers, i, total_amount, remaining_usage, usage_processed) ==
    IF i > Len(tiers) \/ remaining_usage <= 0 THEN total_amount
    ELSE LET tier == tiers[i]
             tier_start == tier.min_usage
             tier_end == IF tier.max_usage # {}
                         THEN CHOOSE m \in tier.max_usage : TRUE
                         ELSE usage_processed + remaining_usage
             skips == usage_processed < tier_start
             skip_amount == tier_start - usage_processed
         IN IF skips /\ skip_amount >= remaining_usage THEN total_amount
            ELSE LET remaining1 == IF skips THEN remaining_usage - skip_amount
                                   ELSE remaining_usage
                     processed1 == IF skips THEN tier_start ELSE usage_processed
                     tier_capacity == tier_end - processed1
                     tier_usage == Min(remaining1, tier_capacity)
                 IN IF tier_usage > 0
                    THEN TierWalk(tiers, i + 1,
                                  total_amount + Mul(tier_usage, tier.unit_price)
                                               + tier.flat_fee,
                                  remaining1 - tier_usage, processed1 + tier_usage)
                    ELSE TierWalk(tiers, i + 1, total_amount, remaining1, processed1)

\* Variant of calculate_tiered_pricing that prices the whole usage at the first
\* tier whose range holds it (volume pricing instead of graduated pricing).
calculate_volume_pricing(usage, pricing) ==
    LET holds(i) ==
            /\ pricing.tiers[i].min_usage <= usage
            /\ \A max_usage \in pricing.tiers[i].max_usage : usage < max_usage
        matching == {i \in 1..Len(pricing.tiers) : holds(i)}
    IN IF matching = {} \/ usage <= 0 THEN 0
       ELSE LET i == CHOOSE j \in matching : \A k \in matching : j <= k
            IN Mul(usage, pricing.tiers[i].unit_price) + pricing.tiers[i].flat_fee

calculate_tiered_pricing(usage, pricing) ==
    IF pricing.tiers = <<>> THEN 0
    ELSE TierWalk(pricing.tiers, 1, 0, usage, 0)

----------------------------------------------------------------------------
(* Rating policy helpers (lib/rating_policies.py) *)

UsageReading(meter_key, value) == [meter_key |-> meter_key, value |-> value]

\* Meter keys in the order in which the store returns their first row.
MeterOrder == <<WF, OT, OD, LLM, API, NEU>>

SeqRange(s) == {s[i] : i \in 1..Len(s)}

MeterKeysOf(readings) == {readings[i].meter_key : i \in 1..Len(readings)}

\* usage_by_meter[meter_key].value, for a key that has a reading
UsageOf(readings, meter_key) ==
    LET i == CHOOSE j \in 1..Len(readings) : readings[j].meter_key = meter_key
    IN readings[i].value

ExclusionFires(exclusion, usage_readings) ==
    /\ exclusion.when # {}
    /\ \E when_meter \in exclusion.when :
          /\ when_meter \in MeterKeysOf(usage_readings)
          /\ UsageOf(usage_readings, when_meter) > 0

\* Variant of apply_exclusions that drops nothing.
apply_exclusions_keep_all(usage_readings, pol) == usage_readings

apply_exclusions(usage_readings, pol) ==
    IF pol.exclusions = <<>> THEN usage_readings
    ELSE LET excluded_meters ==
                 UNION {SeqRange(pol.exclusions[i].drop) :
                          i \in {j \in 1..Len(pol.exclusions) :
                                   ExclusionFires(pol.exclusions[j], usage_readings)}}
             Keep(r) == r.meter_key \notin excluded_meters
         IN SelectSeq(usage_readings, Keep)

RECURSIVE SumEnvelope(_, _, _, _)
SumEnvelope(work_meters, edge_meter, usage_readings, pol) ==
    IF work_meters = {} THEN 0
    ELSE LET work_meter == CHOOSE w \in work_meters : TRUE
             edge_allowances == Get(pol.edges_included_per_work, work_meter, EmptyMap)
             envelope_size == IF edge_meter \in DOMAIN edge_allowances
                              THEN Mul(edge_allowances[edge_meter],
                                       UsageOf(usage_readings, work_meter))
                              ELSE 0
         IN envelope_size
            + SumEnvelope(work_meters \ {work_meter}, edge_meter, usage_readings, pol)

\* Variant of allocate_work_envelopes in which every meter with a reading
\* allocates, whether it is a work meter or not.
allocate_envelopes_of_every_meter(usage_readings, pol) ==
    LET work_usage == MeterKeysOf(usage_readings)
        edge_meters == UNION {DOMAIN Get(pol.edges_included_per_work, w, EmptyMap) :
                                w \in work_usage}
    IN [edge_meter \in edge_meters |->
          SumEnvelope(work_usage, edge_meter, usage_readings, pol)]

allocate_work_envelopes(usage_readings, pol) ==
    LET work_usage == {k \in MeterKeysOf(usage_readings) : is_work_meter(k)}
        edge_meters == UNION {DOMAIN Get(pol.edges_included_per_work, w, EmptyMap) :
                                w \in work_usage}
    IN [edge_meter \in edge_meters |->
          SumEnvelope(work_usage, edge_meter, usage_readings, pol)]

EnvelopeAllocation(edge_meter, allocated, consumed, remaining) ==
    [edge_meter |-> edge_meter, allocated |-> allocated,
     consumed |-> consumed, remaining |-> remaining]

bill_edge_spill(edge_total, included, envelope, unit_price) ==
    Mul(Max(0, edge_total - included - envelope), unit_price)

----------------------------------------------------------------------------
(* Rating engine (apps/rater/main.py) *)

RatedLine(meter_key, usage_quantity, billable_quantity, amount, line_type, included_consumed, envelope_consumed) ==
    [meter_key |-> meter_key, usage_quantity |-> usage_quantity,
     billable_quantity |-> billable_quantity, amount |-> amount,
     line_type |-> line_type, included_consumed |-> included_consumed,
     envelope_consumed |-> envelope_consumed]

LineTypeOf(meter_key) == IF is_work_meter(meter_key) THEN "work" ELSE "edge"

\* The rows the query of _load_meter_readings selects: the customer's rows with
\* window_start >= period_start and window_end <= period_end.
_load_meter_readings_rows(customer_id, period_start, period_end) ==
    {r \in meter_readings :
       /\ r.customer_id = customer_id
       /\ r.window_start >= period_start
       /\ r.window_end <= period_end}

\* _load_meter_readings: the customer's rows inside the period, summed per meter
_load_meter_readings(customer_id, period_start, period_end) ==
    LET readings == _load_meter_readings_rows(customer_id, period_start, period_end)
        aggregated(k) == SumValue({r \in readings : r.meter_key = k})
        Present(k) == \E r \in readings : r.meter_key = k
        keys == SelectSeq(MeterOrder, Present)
    IN [i \in 1..Len(keys) |-> UsageReading(keys[i], aggregated(keys[i]))]

\* Rate a single meter without envelope considerations.
_rate_meter(reading, pol) ==
    IF reading.meter_key \notin DOMAIN pol.meter_pricing THEN <<>>
    ELSE LET meter_pricing == pol.meter_pricing[reading.meter_key]
             billable_usage == Max(0, reading.value - meter_pricing.included_quota)
         IN IF billable_usage <= 0
            THEN <<RatedLine(reading.meter_key, reading.value, 0, 0,
                             LineTypeOf(reading.meter_key), reading.value, 0)>>
            ELSE <<RatedLine(reading.meter_key, reading.value, billable_usage,
                             calculate_tiered_pricing(billable_usage, meter_pricing),
                             LineTypeOf(reading.meter_key),
                             meter_pricing.included_quota, 0)>>

\* Rate an edge meter considering envelope allocation: the lines and the
\* envelopes as the call leaves them.
_rate_edge_with_envelope(reading, pol, envelopes, reduction_factor) ==
    IF reading.meter_key \notin DOMAIN pol.meter_pricing
    THEN [lines |-> <<>>, envelopes |-> envelopes]
    ELSE LET meter_pricing == pol.meter_pricing[reading.meter_key]
             has_envelope == reading.meter_key \in DOMAIN envelopes
             envelope == envelopes[reading.meter_key]
             envelope_available ==
                 IF has_envelope /\ envelope.remaining > 0
                 THEN Mul(envelope.remaining, reduction_factor)
                 ELSE 0
             total_covered == meter_pricing.included_quota + envelope_available
             billable_usage == Max(0, reading.value - total_covered)
             envelope_consumed ==
                 Min(reading.value - meter_pricing.included_quota, envelope_available)
             envelopes1 ==
                 IF has_envelope
                 THEN [envelopes EXCEPT ![reading.meter_key] =
                         EnvelopeAllocation(envelope.edge_meter, envelope.allocated,
                                            envelope.consumed + envelope_consumed,
                                            envelope.remaining - envelope_consumed)]
                 ELSE envelopes
             line_envelope == IF has_envelope THEN envelope_available ELSE 0
         IN IF billable_usage <= 0
            THEN [lines |-> <<RatedLine(reading.meter_key, reading.value, 0, 0, "edge",
                                        meter_pricing.included_quota, line_envelope)>>,
                  envelopes |-> envelopes1]
            ELSE [lines |-> <<RatedLine(reading.meter_key, reading.value, billable_usage,
                                        calculate_tiered_pricing(billable_usage,
                                                                 meter_pricing),
                                        "edge", meter_pricing.included_quota,
                                        line_envelope)>>,
                  envelopes |-> envelopes1]

\* for reading in readings: if is_work_meter(...): lines.extend(_rate_meter(...))
RECURSIVE RateWhere(_, _, _, _)
RateWhere(readings, i, pol, want_work) ==
    IF i > Len(readings) THEN <<>>
    ELSE LET reading == readings[i]
             chosen == IF want_work THEN is_work_meter(reading.meter_key)
                       ELSE is_edge_meter(reading.meter_key)
         IN (IF chosen THEN _rate_meter(reading, pol) ELSE <<>>)
            \o RateWhere(readings, i + 1, pol, want_work)

\* for reading in readings: if is_edge_meter(...): _rate_edge_with_envelope(...)
RECURSIVE RateEdgesWithEnvelope(_, _, _, _, _)
RateEdgesWithEnvelope(readings, i, pol, envelopes, reduction_factor) ==
    IF i > Len(readings) THEN [lines |-> <<>>, envelopes |-> envelopes]
    ELSE LET reading == readings[i]
         IN IF is_edge_meter(reading.meter_key)
            THEN LET one == _rate_edge_with_envelope(reading, pol, envelopes,
                                                     reduction_factor)
                     rest == RateEdgesWithEnvelope(readings, i + 1, pol, one.envelopes,
                                                   reduction_factor)
                 IN [lines |-> one.lines \o rest.lines, envelopes |-> rest.envelopes]
            ELSE RateEdgesWithEnvelope(readings, i + 1, pol, envelopes, reduction_factor)

\* Variant of _rate_work_over_edges that rates the edges without their envelopes.
_rate_work_over_edges_no_envelope(readings, pol, envelopes) ==
    [lines |-> RateWhere(readings, 1, pol, TRUE) \o RateWhere(readings, 1, pol, FALSE),
     envelopes |-> envelopes]

_rate_work_over_edges(readings, pol, envelopes) ==
    LET work_lines == RateWhere(readings, 1, pol, TRUE)
        edges == RateEdgesWithEnvelope(readings, 1, pol, envelopes, Dec(1))
    IN [lines |-> work_lines \o edges.lines, envelopes |-> edges.envelopes]

_rate_edges_over_work(readings, pol, envelopes) ==
    [lines |-> RateWhere(readings, 1, pol, FALSE) \o RateWhere(readings, 1, pol, TRUE),
     envelopes |-> envelopes]

\* Work and edge meters in one pass; edges see half of the envelope.
RECURSIVE RateParallelFrom(_, _, _, _)
RateParallelFrom(readings, i, pol, envelopes) ==
    IF i > Len(readings) THEN [lines |-> <<>>, envelopes |-> envelopes]
    ELSE LET reading == readings[i]
         IN IF is_work_meter(reading.meter_key)
            THEN LET rest == RateParallelFrom(readings, i + 1, pol, envelopes)
                 IN [lines |-> _rate_meter(reading, pol) \o rest.lines,
                     envelopes |-> rest.envelopes]
            ELSE IF is_edge_meter(reading.meter_key)
            THEN LET one == _rate_edge_with_envelope(reading, pol, envelopes,
                                                     Dec(1) \div 2)
                     rest == RateParallelFrom(readings, i + 1, pol, one.envelopes)
                 IN [lines |-> one.lines \o rest.lines, envelopes |-> rest.envelopes]
            ELSE RateParallelFrom(readings, i + 1, pol, envelopes)

\* Variant of _rate_parallel in which the edges see their whole envelope.
_rate_parallel_whole_envelope(readings, pol, envelopes) ==
    _rate_work_over_edges(readings, pol, envelopes)

_rate_parallel(readings, pol, envelopes) == RateParallelFrom(readings, 1, pol, envelopes)

----------------------------------------------------------------------------
(* Success fees (lib/success_fees.py) *)

\* verification.outcome_metadata matches every key/value pair of conditions
_matches_conditions(verification, conditions) ==
    IF verification.outcome_metadata = {} THEN FALSE
    ELSE LET metadata == CHOOSE m \in verification.outcome_metadata : TRUE
         IN IF DOMAIN metadata = {} THEN FALSE
            ELSE \A key \in DOMAIN conditions :
                    Get(metadata, key, None) = conditions[key]

get_settled_outcomes(customer_id, outcome_key, period_start, period_end, conditions) ==
    LET verifications ==
            {v \in outcome_verifications :
               /\ v.outcome_key = outcome_key
               /\ v.status = "verified"
               /\ v.holdback_until <= now
               /\ \E run \in workflow_runs :
                     /\ run.id = v.workflow_run_id
                     /\ run.customer_id = customer_id
                     /\ run.started_at >= period_start
                     /\ run.started_at <= period_end}
    IN IF DOMAIN conditions # {}
       THEN {v \in verifications : _matches_conditions(v, conditions)}
       ELSE verifications

\* A row of the outcome verification table as create_outcome_verification fills it
OutcomeVerification(id, workflow_run_id, outcome_key, external_system, external_ref, settlement_days, outcome_metadata) ==
    [id |-> id, workflow_run_id |-> workflow_run_id, outcome_key |-> outcome_key,
     external_system |-> IF external_system = {} THEN "internal"
                         ELSE CHOOSE x \in external_system : TRUE,
     external_ref |-> IF external_ref = {} THEN workflow_run_id
                      ELSE CHOOSE x \in external_ref : TRUE,
     status |-> "pending", holdback_until |-> now + settlement_days,
     settlement_days |-> settlement_days, outcome_metadata |-> outcome_metadata,
     verified_at |-> {}, reversal_reason |-> {}]

\* OutcomeVerificationManager.create_outcome_verification: the table with the new
\* row, whose id is the next of the sequence.
create_outcome_verification(table, workflow_run_id, outcome_key, external_system, external_ref, settlement_days, outcome_metadata) ==
    table \cup {OutcomeVerification(Cardinality(table) + 1, workflow_run_id, outcome_key,
                                    external_system, external_ref, settlement_days,
                                    outcome_metadata)}

\* OutcomeVerificationManager.verify_outcome: UPDATE ... WHERE id = verification_id,
\* whatever the row's status is; scalar_one() raises when there is no such row.
verify_outcome(table, verification_id, verified, reversal_reason) ==
    LET updated == {IF v.id = verification_id
                    THEN [v EXCEPT !.status = IF verified THEN "verified" ELSE "reversed",
                                   !.verified_at = IF verified THEN {now} ELSE {},
                                   !.reversal_reason = reversal_reason]
                    ELSE v : v \in table}
    IN [table |-> updated,
        raised |-> IF \E v \in table : v.id = verification_id THEN {}
                   ELSE {"NoResultFound"}]

\* SuccessFeeBilling.process_external_verification: only a pending row with the
\* reference is looked for.  outcome_metadata is updated in place; whether the
\* session tracks that change and stores it depends on the column's type
\* (`tracked`).
process_external_verification(table, external_ref, external_system, verified, verification_data, tracked) ==
    LET found == {v \in table : /\ v.external_ref = external_ref
                                /\ v.external_system = external_system
                                /\ v.status = "pending"}
        Truthy(metadata) == \E m \in metadata : DOMAIN m # {}
        Merged(v) ==
            IF tracked /\ DOMAIN verification_data # {} /\ Truthy(v.outcome_metadata)
            THEN [v EXCEPT !.outcome_metadata =
                     {verification_data @@ m : m \in v.outcome_metadata}]
            ELSE v
        reversal_reason ==
            IF ~verified /\ DOMAIN verification_data # {}
            THEN {Get(verification_data, "reason", "External verification failed")}
            ELSE {}
    IN IF found = {} THEN [table |-> table, raised |-> {}]
       ELSE IF Cardinality(found) > 1
       THEN [table |-> table, raised |-> {"MultipleResultsFound"}]
       ELSE verify_outcome({IF v \in found THEN Merged(v) ELSE v : v \in table},
                           (CHOOSE v \in found : TRUE).id, verified, reversal_reason)

SuccessFeeConfig(meter_key, config_data) ==
    [meter_key |-> meter_key,
     price_per_unit |-> Get(config_data, "price_per_unit", 0),
     conditions |-> Get(config_data, "conditions", EmptyMap),
     settlement_days |-> Get(config_data, "settlement_days", 7),
     external_verification |-> Get(config_data, "external_verification", FALSE),
     external_system |-> IF "external_system" \in DOMAIN config_data
                         THEN {config_data.external_system} ELSE {}]

\* Variant of record_outcome_event that verifies the new outcome whatever the
\* config says.
record_outcome_event_auto_verified(table, workflow_run_id, outcome_key, outcome_metadata, success_fee_config) ==
    CHOOSE done \in
      {[table |-> verify_outcome(created, Cardinality(created), TRUE, {}).table,
        id |-> Cardinality(created)] :
       created \in {create_outcome_verification(
                       table, workflow_run_id, outcome_key,
                       UNION {config.external_system : config \in success_fee_config},
                       {}, 0, outcome_metadata)}} :
      TRUE

\* SuccessFeeBilling.record_outcome_event: the table after the call and the id of
\* the new record.  success_fee_config is {} for None.
record_outcome_event(table, workflow_run_id, outcome_key, outcome_metadata, success_fee_config) ==
    LET external_system == UNION {config.external_system : config \in success_fee_config}
        settlement_days == IF success_fee_config = {} THEN 0
                           ELSE (CHOOSE config \in success_fee_config : TRUE).settlement_days
        auto_verify == \/ success_fee_config = {}
                       \/ \E config \in success_fee_config : ~config.external_verification
    IN CHOOSE done \in
         {[table |-> IF auto_verify
                     THEN verify_outcome(created, Cardinality(created), TRUE, {}).table
                     ELSE created,
           id |-> Cardinality(created)] :
          created \in {create_outcome_verification(table, workflow_run_id, outcome_key,
                                                   external_system, {}, settlement_days,
                                                   outcome_metadata)}} :
         TRUE

\* one fee line per config that has a settled outcome
RECURSIVE calculate_success_fees(_, _, _, _)
calculate_success_fees(customer_id, period_start, period_end, success_fee_configs) ==
    IF success_fee_configs = <<>> THEN <<>>
    ELSE LET config == Head(success_fee_configs)
             settled_outcomes == get_settled_outcomes(customer_id, config.meter_key,
                                                      period_start, period_end,
                                                      config.conditions)
             quantity == Cardinality(settled_outcomes)
             line == [meter_key |-> config.meter_key, line_type |-> "success_fee",
                      quantity |-> quantity, unit_price |-> config.price_per_unit,
                      amount |-> quantity * config.price_per_unit]
         IN (IF settled_outcomes # {} THEN <<line>> ELSE <<>>)
            \o calculate_success_fees(customer_id, period_start, period_end,
                                      Tail(success_fee_configs))

\* RatingEngine._calculate_success_fees.  policy.success_fees is read although
\* RatingPolicy declares no such field: a policy without the attribute raises
\* AttributeError.  Each fee line is turned into a RatedLine without the
\* required billable_quantity, which pydantic rejects.
_calculate_success_fees(customer_id, period_start, period_end, pol) ==
    IF pol.success_fees = {} THEN [raised |-> {"AttributeError"}, lines |-> <<>>]
    ELSE LET success_fees == CHOOSE f \in pol.success_fees : TRUE
             Configured(k) == k \in DOMAIN success_fees
             keys == SelectSeq(MeterOrder, Configured)
             success_fee_configs ==
                 [i \in 1..Len(keys) |-> SuccessFeeConfig(keys[i], success_fees[keys[i]])]
             success_fee_data == calculate_success_fees(customer_id, period_start,
                                                        period_end, success_fee_configs)
         IN IF DOMAIN success_fees = {} THEN [raised |-> {}, lines |-> <<>>]
            ELSE IF success_fee_data # <<>>
            THEN [raised |-> {"ValidationError"}, lines |-> <<>>]
            ELSE [raised |-> {}, lines |-> <<>>]

----------------------------------------------------------------------------
(* COGS (lib/cogs_calculator.py) *)

calculate_period_cogs(customer_id, period_start, period_end) ==
    LET records == {c \in cost_records :
                      /\ c.ts >= period_start
                      /\ c.ts <= period_end
                      /\ \E run \in workflow_runs :
                            run.id = c.workflow_run_id /\ run.customer_id = customer_id}
        RECURSIVE Total(_)
        Total(rs) == IF rs = {} THEN 0
                     ELSE LET c == CHOOSE x \in rs : TRUE
                          IN c.cost_amount + Total(rs \ {c})
    IN Total(records)

----------------------------------------------------------------------------
(* RatingEngine.rate_customer_period *)

\* datetime.isoformat and datetime.fromisoformat
isoformat(t) == <<"iso", t>>

fromisoformat(text) == text[2]

RatingResult(customer_id, period_start, period_end, lines, envelopes, subtotal, discount_amount, total, cogs_estimate, margin_estimate) ==
    [outcome |-> "returned", raised |-> {}, customer_id |-> customer_id,
     period_start |-> period_start, period_end |-> period_end,
     lines |-> lines, envelopes |-> envelopes, subtotal |-> subtotal,
     discount_amount |-> discount_amount, total |-> total,
     cogs_estimate |-> cogs_estimate, margin_estimate |-> margin_estimate]

_create_empty_result(customer_id, period_start, period_end) ==
    RatingResult(customer_id, isoformat(period_start), isoformat(period_end), <<>>,
                 EmptyMap, 0, 0, 0, 0, 0)

Raised(customer_id, period_start, period_end, exception) ==
    [_create_empty_result(customer_id, period_start, period_end)
       EXCEPT !.outcome = "raised", !.raised = exception]

NoResult == [_create_empty_result("", 0, 0) EXCEPT !.outcome = "idle"]

LineAmounts(lines) == [i \in 1..Len(lines) |-> lines[i].amount]

\* policy.spend_cap and total > policy.spend_cap
SpendCapApplies(pol, total) ==
    \E spend_cap \in pol.spend_cap : spend_cap # 0 /\ total > spend_cap

rate_customer_period(customer_id, period_start, period_end, pol) ==
    LET usage_readings == _load_meter_readings(customer_id, period_start, period_end)
        filtered_readings == apply_exclusions(usage_readings, pol)
        envelopes == allocate_work_envelopes(filtered_readings, pol)
        envelope_allocations ==
            [meter \in DOMAIN envelopes |->
               EnvelopeAllocation(meter, envelopes[meter], 0, envelopes[meter])]
        rated == IF pol.precedence = "work_over_edges"
                 THEN _rate_work_over_edges(filtered_readings, pol, envelope_allocations)
                 ELSE IF pol.precedence = "edges_over_work"
                 THEN _rate_edges_over_work(filtered_readings, pol, envelope_allocations)
                 ELSE _rate_parallel(filtered_readings, pol, envelope_allocations)
        base_fee_lines ==
            IF pol.base_fee > 0
            THEN <<RatedLine(<<"base_fee">>, Dec(1), Dec(1), pol.base_fee, "base_fee", 0, 0)>>
            ELSE <<>>
        fees == _calculate_success_fees(customer_id, period_start, period_end, pol)
        lines == rated.lines \o base_fee_lines \o fees.lines
        subtotal == SumSeq(LineAmounts(lines))
        discount0 == Mul(subtotal, pol.discount_percent \div 100)
        total0 == subtotal - discount0
        capped == SpendCapApplies(pol, total0)
        spend_cap == CHOOSE c \in pol.spend_cap : TRUE
        discount_amount == IF capped THEN discount0 + (total0 - spend_cap) ELSE discount0
        total == IF capped THEN spend_cap ELSE total0
        cogs_estimate == calculate_period_cogs(customer_id, period_start, period_end)
    IN IF usage_readings = <<>>
       THEN _create_empty_result(customer_id, period_start, period_end)
       ELSE IF fees.raised # {}
       THEN Raised(customer_id, period_start, period_end, fees.raised)
       ELSE RatingResult(customer_id, isoformat(period_start), isoformat(period_end),
                         lines, rated.envelopes, subtotal, discount_amount, total,
                         cogs_estimate, total - cogs_estimate)

----------------------------------------------------------------------------
(* RatingService (apps/rater/main.py) and the rated_usage table (lib/models.py) *)

\* The columns RatedUsage declares; every one of them is NOT NULL.
RatedUsageColumns ==
    {"customer_id", "period_start", "period_end", "items_json", "subtotal", "cogs",
     "margin"}

\* A table row built from keyword arguments: the declared columns among them are
\* set, the others are dropped, and a declared column not given stays unset.
RatedUsage(kwargs) ==
    [column \in RatedUsageColumns |->
       IF column \in DOMAIN kwargs THEN {kwargs[column]} ELSE {}]

\* session.commit() of one added row: the table, or IntegrityError when a NOT NULL
\* column is unset or the unique key (customer_id, period_start, period_end) exists.
CommitRatedUsage(table, row) ==
    IF \E column \in RatedUsageColumns : row[column] = {}
    THEN [table |-> table, raised |-> {"IntegrityError"}]
    ELSE IF \E other \in table :
               /\ other.customer_id = row.customer_id
               /\ other.period_start = row.period_start
               /\ other.period_end = row.period_end
    THEN [table |-> table, raised |-> {"IntegrityError"}]
    ELSE [table |-> table \cup {row}, raised |-> {}]

line_items_json(res) ==
    [lines |-> res.lines, envelopes |-> res.envelopes, subtotal |-> res.subtotal,
     discount_amount |-> res.discount_amount]

_store_rated_usage(table, res) ==
    LET existing == {row \in table :
                       /\ row.customer_id = {res.customer_id}
                       /\ row.period_start = {fromisoformat(res.period_start)}
                       /\ row.period_end = {fromisoformat(res.period_end)}}
    IN IF existing # {}
       THEN \* existing.total_amount = ...: RatedUsage has no field total_amount
            [table |-> table, raised |-> {"ValueError"}]
       ELSE CommitRatedUsage(table,
                RatedUsage([customer_id |-> res.customer_id,
                            period_start |-> fromisoformat(res.period_start),
                            period_end |-> fromisoformat(res.period_end),
                            total_amount |-> res.total,
                            line_items_json |-> line_items_json(res),
                            cogs_amount |-> res.cogs_estimate,
                            margin_amount |-> res.margin_estimate]))

----------------------------------------------------------------------------
(* Inputs of the rating specification *)

Customer == "c1"

OtherCustomer == "c2"

PeriodStart == 0

PeriodEnd == PeriodStart + 2 * WindowMinutes

MaxCalls == 2

Precedences == {"work_over_edges", "edges_over_work", "parallel"}

Unlimited(unit_price) == Tier(0, {}, Dec(unit_price), 0)

Pricing1 ==
    (WF :> MeterPricing(WF, Dec(1), <<Unlimited(2)>>))
    @@ (LLM :> MeterPricing(LLM, Dec(2), <<Unlimited(1)>>))
    @@ (API :> MeterPricing(API, 0, <<Unlimited(1)>>))

Pricing2 ==
    (LLM :> MeterPricing(LLM, 0, <<Tier(0, {Dec(2)}, Dec(2), Dec(1)),
                                   Tier(Dec(2), {}, Dec(1), 0)>>))
    @@ (NEU :> MeterPricing(NEU, 0, <<Unlimited(1)>>))

Pricing3 ==
    (WF :> MeterPricing(WF, 0, <<Unlimited(1)>>))
    @@ (LLM :> MeterPricing(LLM, Dec(2), <<>>))
    @@ (API :> MeterPricing(API, Dec(1), <<Tier(0, {}, Dec(2), Dec(1))>>))

Allowances1 == WF :> ((LLM :> Dec(1)) @@ (API :> Dec(2)))

Exclusions1 == <<[when |-> {WF}, drop |-> <<API>>]>>

SuccessFees1 == OT :> [price_per_unit |-> Dec(2)]

SuccessFees2 == OD :> [price_per_unit |-> Dec(2), settlement_days |-> 0]

PolicyShapes ==
    [precedence : Precedences,
     edges_included_per_work : {EmptyMap, Allowances1},
     exclusions : {<<>>, Exclusions1},
     overage_spill : {TRUE, FALSE},
     meter_pricing : {Pricing1, Pricing2, Pricing3},
     base_fee : {0, Dec(3)},
     spend_cap : {{}, {0}, {Dec(2)}},
     discount_percent : {0, Dec(50), Dec(150)},
     success_fees : {{}, {EmptyMap}, {SuccessFees1}, {SuccessFees2}}]

PlainTerms(pol) == pol.base_fee = 0 /\ pol.spend_cap = {} /\ pol.discount_percent = 0

\* Every pricing shape is combined with every commercial term under an empty
\* success_fees mapping; the other success_fees shapes, and overage_spill = False,
\* come with plain terms.
Policies ==
    {pol \in PolicyShapes :
       /\ pol.success_fees = {EmptyMap} \/ PlainTerms(pol)
       /\ pol.overage_spill \/ (pol.success_fees = {EmptyMap} /\ PlainTerms(pol))}

MeterReading(customer_id, meter_key, window_start, value, src_event_ids) ==
    [customer_id |-> customer_id, meter_key |-> meter_key,
     window_start |-> window_start, window_end |-> window_start + WindowMinutes,
     value |-> value, src_event_ids |-> src_event_ids]

\* The rows that hold `units` of usage of a meter inside the period: one window,
\* or two when there are at least two units.
UsageRows(meter_key, usage) ==
    IF usage = {} THEN {}
    ELSE LET units == CHOOSE n \in usage : TRUE
         IN IF units >= 2
            THEN {MeterReading(Customer, meter_key, PeriodStart, Dec(1), <<>>),
                  MeterReading(Customer, meter_key, PeriodStart + WindowMinutes,
                               Dec(units - 1), <<>>)}
            ELSE {MeterReading(Customer, meter_key, PeriodStart, Dec(units), <<>>)}

\* Rows the rating of (Customer, period) must not count.
ForeignRows ==
    {MeterReading(OtherCustomer, LLM, PeriodStart, Dec(7), <<>>),
     MeterReading(Customer, LLM, PeriodEnd, Dec(7), <<>>)}

UsageShapes ==
    [wf : {{}, {0}, {2}}, llm : {{}, {1}, {3}, {6}}, api : {{}, {3}}, neu : {{}, {1}}]

UsageChoices ==
    {usage \in UsageShapes : usage.neu = {} \/ (usage.wf = {} /\ usage.api = {})}

SettledRuns ==
    {[id |-> "run1", customer_id |-> Customer, started_at |-> 1],
     [id |-> "run2", customer_id |-> Customer, started_at |-> 2]}

SettledOutcomes ==
    {[id |-> 1, workflow_run_id |-> "run1", outcome_key |-> OT, status |-> "verified",
      holdback_until |-> 0, outcome_metadata |-> {}],
     [id |-> 2, workflow_run_id |-> "run2", outcome_key |-> OT, status |-> "pending",
      holdback_until |-> 0, outcome_metadata |-> {}]}

CostRecords ==
    {[id |-> 1, workflow_run_id |-> "run1", ts |-> 1, cost_amount |-> Dec(1)]}

----------------------------------------------------------------------------
(* External metrics import (apps/metrics_collector/main.py) *)

\* A sample of an external metric; timestamp is [minute, second].
MetricDataPoint(index, labels, timestamp, value) ==
    [index |-> index, labels |-> labels, timestamp |-> timestamp, value |-> value]

MetricMapping(kachi_meter_key, customer_id_label, scaling_factor) ==
    [kachi_meter_key |-> kachi_meter_key, customer_id_label |-> customer_id_label,
     scaling_factor |-> scaling_factor]

\* The texts that UUID(text) accepts.
UUIDTexts == {"c1", "c2", "c9"}

_extract_customer_id(data_point, mapping) ==
    LET customer_id_str == Get(data_point.labels, mapping.customer_id_label, "")
    IN IF customer_id_str = "" THEN {}
       ELSE IF customer_id_str \in UUIDTexts THEN {customer_id_str}
       ELSE {}

_apply_transformation(value, mapping) == Mul(value, mapping.scaling_factor)

_customer_exists(customer_id) == customer_id \in customers

\* The rows scalar_one_or_none() chooses from.
_get_existing_meter_reading(table, customer_id, meter_key, window_start) ==
    {r \in table :
       /\ r.customer_id = customer_id
       /\ r.meter_key = meter_key
       /\ r.window_start = window_start}

\* timestamp.replace(second=0, microsecond=0), in minutes
TruncateToMinute(timestamp) == timestamp.minute

RECURSIVE SumTransformed(_, _)
SumTransformed(data_points, mapping) ==
    IF data_points = {} THEN 0
    ELSE LET data_point == CHOOSE d \in data_points : TRUE
         IN _apply_transformation(data_point.value, mapping)
            + SumTransformed(data_points \ {data_point}, mapping)

\* The table as the call leaves it, the exception it raised if any, and the
\* readings it returned.
_transform_and_store_metrics(table, collected, mapping) ==
    LET kept == {d \in collected.data_points :
                   \E customer_id \in _extract_customer_id(d, mapping) :
                      _customer_exists(customer_id)}
        KeyOf(d) == <<CHOOSE c \in _extract_customer_id(d, mapping) : TRUE,
                      TruncateToMinute(d.timestamp)>>
        customer_windows == {KeyOf(d) : d \in kept}
        total_value(key) == SumTransformed({d \in kept : KeyOf(d) = key}, mapping)
        existing(key) ==
            _get_existing_meter_reading(table, key[1], mapping.kachi_meter_key, key[2])
        updated == UNION {{[r EXCEPT !.value = r.value + total_value(key)] :
                             r \in existing(key)} : key \in customer_windows}
        replaced == UNION {existing(key) : key \in customer_windows}
        created == {[customer_id |-> key[1], meter_key |-> mapping.kachi_meter_key,
                     window_start |-> key[2], window_end |-> key[2] + 1,
                     value |-> total_value(key), src_event_ids |-> <<>>] :
                      key \in {k \in customer_windows : existing(k) = {}}}
    IN IF ~collected.success
       THEN [table |-> table, raised |-> {}, meter_readings |-> {}]
       ELSE IF \E key \in customer_windows : Cardinality(existing(key)) > 1
       THEN [table |-> table, raised |-> {"MultipleResultsFound"}, meter_readings |-> {}]
       ELSE [table |-> (table \ replaced) \cup updated \cup created, raised |-> {},
             meter_readings |-> updated \cup created]

----------------------------------------------------------------------------
(* Deriver (apps/deriver/processors.py, apps/deriver/main.py) *)

batch_size == 1000

\* timedelta(hours=batch_hours) with batch_hours = 6, in minutes
batch_minutes == 6 * 60

LLM_INPUT == <<"llm", "tokens", "input">>
LLM_OUTPUT == <<"llm", "tokens", "output">>
COMPUTE == <<"compute", "ms">>
NET == <<"net", "bytes">>
STORAGE == <<"storage", "gbh">>
WFAIL == <<"workflow", "failed">>
STEP == <<"step", "completed">>
OA == <<"outcome", "analysis_completed">>

RawEvent(id, customer_id, ts, event_type, payload_json) ==
    [id |-> id, customer_id |-> customer_id, ts |-> ts, event_type |-> event_type,
     payload_json |-> payload_json]

\* What one event adds to an edge aggregate.
EdgeAmount(event, meter_key) ==
    LET edge_attrs == Get(event.payload_json, "edge", EmptyMap)
        attr(name) == Get(edge_attrs, name, 0)
    IN IF DOMAIN edge_attrs = {} THEN 0
       ELSE IF meter_key = API
       THEN (IF event.event_type \in {"span_started", "span_ended"} THEN 1 ELSE 0)
       ELSE IF meter_key = LLM_INPUT THEN attr("llm_tokens_input")
       ELSE IF meter_key = LLM_OUTPUT THEN attr("llm_tokens_output")
       ELSE IF meter_key = LLM
       THEN attr("llm_tokens_input") + attr("llm_tokens_output") + attr("llm_tokens")
       ELSE IF meter_key = COMPUTE THEN attr("compute_ms")
       ELSE IF meter_key = NET THEN attr("net_bytes_in") + attr("net_bytes_out")
       ELSE IF meter_key = STORAGE THEN attr("storage_gb_hours")
       ELSE 0

\* "word" in event_name.lower(), event_name being the words of the lowered name
NameHas(event_name, word) == word \in SeqRange(event_name)

\* The outcome meter an outcome event counts for, if any.
OutcomeMeter(payload) ==
    LET outcome_attrs == Get(payload, "outcome", EmptyMap)
        event_name == Get(payload, "event_name", <<>>)
        outcome_type == Get(outcome_attrs, "outcome_type", "")
    IN IF NameHas(event_name, "ticket") /\ NameHas(event_name, "resolved") THEN {OT}
       ELSE IF NameHas(event_name, "document") /\ NameHas(event_name, "processed")
       THEN {OD}
       ELSE IF NameHas(event_name, "analysis") /\ NameHas(event_name, "completed")
       THEN {OA}
       ELSE IF outcome_type = "ticket_resolution" THEN {OT}
       ELSE IF outcome_type = "document_processing" THEN {OD}
       ELSE IF outcome_type = "analysis_completion" THEN {OA}
       ELSE {}

\* What one event adds to a work aggregate.
WorkAmount(event, meter_key) ==
    LET payload == event.payload_json
        work_attrs == Get(payload, "work", EmptyMap)
        is_workflow == Get(work_attrs, "workflow_definition", "") # ""
        status == Get(payload, "status", "OK")
    IN IF event.event_type = "span_ended"
       THEN IF meter_key = WF THEN (IF is_workflow /\ status = "OK" THEN 1 ELSE 0)
            ELSE IF meter_key = WFAIL
            THEN (IF is_workflow /\ status # "OK" THEN 1 ELSE 0)
            ELSE IF meter_key = STEP
            THEN (IF Get(work_attrs, "step_key", "") # "" THEN 1 ELSE 0)
            ELSE 0
       ELSE IF event.event_type \in {"outcome", "span_event"}
       THEN (IF meter_key \in OutcomeMeter(payload) THEN 1 ELSE 0)
       ELSE 0

RECURSIVE EdgeAggregate(_, _, _)
EdgeAggregate(events, i, meter_key) ==
    IF i > Len(events) THEN 0
    ELSE EdgeAmount(events[i], meter_key) + EdgeAggregate(events, i + 1, meter_key)

RECURSIVE WorkAggregate(_, _, _)
WorkAggregate(events, i, meter_key) ==
    IF i > Len(events) THEN 0
    ELSE WorkAmount(events[i], meter_key) + WorkAggregate(events, i + 1, meter_key)

event_ids(events) == [i \in 1..Len(events) |-> events[i].id]

edge_aggregates == {API, LLM, LLM_INPUT, LLM_OUTPUT, COMPUTE, NET, STORAGE}

work_aggregates == {WF, WFAIL, STEP, OT, OD, OA}

\* The readings EdgeDeriver.process_window adds to the session.
EdgeDeriver_process_window(customer_id, window_start, window_end, events) ==
    {[customer_id |-> customer_id, meter_key |-> meter_key,
      window_start |-> window_start, window_end |-> window_end,
      value |-> Dec(EdgeAggregate(events, 1, meter_key)),
      src_event_ids |-> event_ids(events)] :
       meter_key \in {k \in edge_aggregates : EdgeAggregate(events, 1, k) > 0}}

\* The readings WorkDeriver.process_window adds to the session.
WorkDeriver_process_window(customer_id, window_start, window_end, events) ==
    {[customer_id |-> customer_id, meter_key |-> meter_key,
      window_start |-> window_start, window_end |-> window_end,
      value |-> Dec(WorkAggregate(events, 1, meter_key)),
      src_event_ids |-> event_ids(events)] :
       meter_key \in {k \in work_aggregates : WorkAggregate(events, 1, k) > 0}}

\* ORDER BY ts; events with the same ts come in the order of their ids.
RECURSIVE OrderByTs(_)
OrderByTs(events) ==
    IF events = {} THEN <<>>
    ELSE LET first == CHOOSE e \in events :
                         \A other \in events :
                            e.ts < other.ts \/ (e.ts = other.ts /\ e.id <= other.id)
         IN <<first>> \o OrderByTs(events \ {first})

\* query.limit(n)
Limit(rows, n) == SubSeq(rows, 1, Min(n, Len(rows)))

\* ts rounded down to the window boundary
WindowStart(ts) == (ts \div WindowMinutes) * WindowMinutes

WindowKey(event) ==
    <<event.customer_id, WindowStart(event.ts), WindowStart(event.ts) + WindowMinutes>>

\* Variant of _group_events_by_window that leaves the customer out of the grouping.
_group_events_by_window_only(events) ==
    LET InWindow(key) == LET Same(e) == WindowKey(e)[2] = key[2]
                         IN SelectSeq(events, Same)
    IN [key \in {WindowKey(events[i]) : i \in 1..Len(events)} |-> InWindow(key)]

\* (customer_id, window_start, window_end) -> the events of the window, in order
_group_events_by_window(events) ==
    LET InWindow(key) == LET Same(e) == WindowKey(e) = key
                         IN SelectSeq(events, Same)
    IN [key \in {WindowKey(events[i]) : i \in 1..Len(events)} |-> InWindow(key)]

ReadingKey(r) == <<r.customer_id, r.meter_key, r.window_start, r.window_end>>

\* Variant of the commit for a table without the unique constraint on
\* (customer_id, meter_key, window_start, window_end).
CommitReadings_without_unique(table, added) ==
    [table |-> table \cup added, raised |-> {}]

\* session.commit() of added readings: IntegrityError when one of them repeats
\* (customer_id, meter_key, window_start, window_end) of a row of the table.
CommitReadings(table, added) ==
    IF \E r \in added : \E other \in table : ReadingKey(other) = ReadingKey(r)
    THEN [table |-> table, raised |-> {"IntegrityError"}]
    ELSE [table |-> table \cup added, raised |-> {}]

\* process_events_batch over the session's view `table` of meter_readings:
\* customer_id, from_time and to_time are optional.
process_events_batch(table, customer_id, from_time, to_time) ==
    LET selected == {e \in raw_events :
                       /\ \A c \in customer_id : e.customer_id = c
                       /\ \A t \in from_time : e.ts >= t
                       /\ \A t \in to_time : e.ts <= t}
        events == Limit(OrderByTs(selected), batch_size)
        customer_windows == _group_events_by_window(events)
        added == UNION {EdgeDeriver_process_window(key[1], key[2], key[3],
                                                   customer_windows[key])
                          \cup WorkDeriver_process_window(key[1], key[2], key[3],
                                                          customer_windows[key]) :
                        key \in DOMAIN customer_windows}
        committed == CommitReadings(table, added)
    IN IF events = <<>>
       THEN [table |-> table, raised |-> {}, processed |-> 0]
       ELSE [table |-> committed.table, raised |-> committed.raised,
             processed |-> Len(events)]

_delete_existing_readings(table, customer_id, start_date, end_date) ==
    table \ {r \in table :
               /\ r.customer_id = customer_id
               /\ r.window_start >= start_date
               /\ r.window_end <= end_date}

\* The loop of reprocess_customer_period: `committed` is the table as of the last
\* commit, `pending` the session's view of it.
RECURSIVE ReprocessBatches(_, _, _, _, _)
ReprocessBatches(committed, pending, customer_id, current_time, end_date) ==
    IF ~(current_time < end_date) THEN [table |-> pending, raised |-> {}]
    ELSE LET batch_end == Min(current_time + batch_minutes, end_date)
             batch == process_events_batch(pending, {customer_id}, {current_time},
                                           {batch_end})
         IN IF batch.raised # {} THEN [table |-> committed, raised |-> batch.raised]
            ELSE IF batch.processed = 0
            THEN ReprocessBatches(committed, pending, customer_id, batch_end, end_date)
            ELSE ReprocessBatches(batch.table, batch.table, customer_id, batch_end,
                                  end_date)

reprocess_customer_period(table, customer_id, start_date, end_date) ==
    ReprocessBatches(table,
                     _delete_existing_readings(table, customer_id, start_date, end_date),
                     customer_id, start_date, end_date)

----------------------------------------------------------------------------
(* Ingestion of OpenTelemetry exports (apps/ingest_api/processors.py) *)

BillingCustomerId == "billing.customer_id"

\* A RawEvent row as the ingestion fills it; the id is given when it is stored.
IngestedEvent(customer_id, ts, event_type, trace_id, span_id, payload_json) ==
    [customer_id |-> customer_id, ts |-> ts, event_type |-> event_type,
     trace_id |-> trace_id, span_id |-> span_id, payload_json |-> payload_json]

\* UniqueConstraint("trace_id", "span_id", "event_type", "ts")
EventKey(event) == <<event.trace_id, event.span_id, event.event_type, event.ts>>

\* BillingAttributes(customer_id=UUID(...)), or None when UUID() raises
_extract_billing_attributes(attributes) ==
    LET text == Get(attributes, BillingCustomerId, None)
    IN IF text \in UUIDTexts THEN {text} ELSE {}

\* The session of one request: events added and not flushed, events flushed
\* in the open transaction, whether a flush has failed, and the counters.
NewSession ==
    [pending |-> <<>>, flushed |-> <<>>, failed |-> FALSE, errors |-> <<>>,
     spans_processed |-> 0, events_processed |-> 0]

\* The INSERTs of a flush succeed: known customers (foreign key) and keys that
\* are neither stored nor repeated (unique constraint).
InsertsAccepted(table, st) ==
    LET added == st.flushed \o st.pending
    IN /\ \A i \in DOMAIN st.pending : st.pending[i].customer_id \in customers
       /\ \A i \in DOMAIN added : \A row \in table : EventKey(row) # EventKey(added[i])
       /\ \A i, j \in DOMAIN added : i # j => EventKey(added[i]) # EventKey(added[j])

\* Session.flush(): a failed INSERT rolls the transaction back.
Flush(table, st) ==
    IF st.pending = <<>> THEN st
    ELSE IF InsertsAccepted(table, st)
    THEN [st EXCEPT !.flushed = st.flushed \o st.pending, !.pending = <<>>]
    ELSE [st EXCEPT !.failed = TRUE, !.flushed = <<>>, !.pending = <<>>]

WithError(st, text) == [st EXCEPT !.errors = Append(@, text)]

\* EventProcessor._verify_customer_exists: the SELECT flushes the session first
\* (autoflush) and is refused after a failed flush.
_verify_customer_exists(table, st, customer_id) ==
    IF st.failed THEN [st |-> st, raised |-> {"PendingRollbackError"}]
    ELSE IF ~InsertsAccepted(table, st) /\ st.pending # <<>>
    THEN [st |-> Flush(table, st), raised |-> {"IntegrityError"}]
    ELSE IF customer_id \notin customers
    THEN [st |-> Flush(table, st), raised |-> {"ValueError"}]
    ELSE [st |-> Flush(table, st), raised |-> {}]

SpanEvents(customer_id, span_data) ==
    <<IngestedEvent(customer_id, span_data.start_time, "span_started",
                    span_data.trace_id, span_data.span_id,
                    [span_name |-> span_data.name])>>
    \o (IF span_data.end_time = {} THEN <<>>
        ELSE <<IngestedEvent(customer_id, CHOOSE t \in span_data.end_time : TRUE,
                             "span_ended", span_data.trace_id, span_data.span_id,
                             [span_name |-> span_data.name, status |-> "OK"])>>)

\* EventProcessor._process_span within the try of process_otel_export
_process_span(table, st, span_data) ==
    LET billing_attrs == _extract_billing_attributes(span_data.attributes)
    IN IF billing_attrs = {} THEN WithError(st, "span: ValueError")
       ELSE CHOOSE after \in
              {IF verified.raised # {}
               THEN WithError(verified.st, "span: " \o (CHOOSE x \in verified.raised : TRUE))
               ELSE [verified.st EXCEPT
                       !.pending = @ \o SpanEvents(CHOOSE c \in billing_attrs : TRUE,
                                                   span_data),
                       !.spans_processed = @ + 1] :
               verified \in {_verify_customer_exists(table, st,
                                                     CHOOSE c \in billing_attrs : TRUE)}} :
              TRUE

\* EventProcessor._process_span_event within its try: the customer is not looked up
_process_span_event(st, event_data, span_data) ==
    LET all_attrs == event_data.attributes @@ span_data.attributes
        billing_attrs == _extract_billing_attributes(all_attrs)
    IN IF billing_attrs = {} THEN WithError(st, "span event: ValueError")
       ELSE [st EXCEPT
               !.pending = Append(@, IngestedEvent(CHOOSE c \in billing_attrs : TRUE,
                                                   event_data.time, "span_event",
                                                   span_data.trace_id, span_data.span_id,
                                                   [event_name |-> event_data.name])),
               !.events_processed = @ + 1]

RECURSIVE ProcessSpanEvents(_, _, _)
ProcessSpanEvents(st, span_data, j) ==
    IF j > Len(span_data.events) THEN st
    ELSE ProcessSpanEvents(_process_span_event(st, span_data.events[j], span_data),
                           span_data, j + 1)

RECURSIVE ProcessSpans(_, _, _, _)
ProcessSpans(table, st, spans, i) ==
    IF i > Len(spans) THEN st
    ELSE ProcessSpans(table,
                      ProcessSpanEvents(_process_span(table, st, spans[i]), spans[i], 1),
                      spans, i + 1)

\* The rows of a committed transaction, with ids of the sequence.
StoredEvents(table, flushed) ==
    {flushed[i] @@ [id |-> Cardinality(table) + i] : i \in DOMAIN flushed}

\* EventProcessor.process_otel_export: the table as the call leaves it, the
\* exception it raised if any, and the response.
process_otel_export(table, spans) ==
    CHOOSE done \in
      {IF st.failed
       THEN [table |-> table, raised |-> {"PendingRollbackError"}, response |-> {}]
       ELSE IF Flush(table, st).failed
       THEN [table |-> table, raised |-> {"IntegrityError"}, response |-> {}]
       ELSE [table |-> table \cup StoredEvents(table, Flush(table, st).flushed),
             raised |-> {},
             response |-> {[spans_processed |-> st.spans_processed,
                            events_processed |-> st.events_processed,
                            errors |-> st.errors]}] :
       st \in {ProcessSpans(table, NewSession, spans, 1)}} :
      TRUE

----------------------------------------------------------------------------
(* The parts of the state a specification leaves alone *)

NoPolicy ==
    [precedence |-> "work_over_edges", edges_included_per_work |-> EmptyMap,
     exclusions |-> <<>>, overage_spill |-> TRUE, meter_pricing |-> EmptyMap,
     base_fee |-> 0, spend_cap |-> {}, discount_percent |-> 0, success_fees |-> {}]

RatingIdle ==
    /\ rated_usage = {}
    /\ outcome_verifications = {}
    /\ workflow_runs = {}
    /\ cost_records = {}
    /\ now = 0
    /\ policy = NoPolicy
    /\ result = NoResult
    /\ store_result = {}
    /\ store_calls = 0

TierIdle ==
    /\ tier_pricing = MeterPricing(LLM, 0, <<>>)
    /\ tier_usages = <<0, 0>>
    /\ tier_amounts = {}

ImportIdle ==
    /\ customers = {}
    /\ collection = {}
    /\ import_calls = 0

DeriverIdle ==
    /\ raw_events = {}
    /\ deriver_log = <<>>

NoCall == [op |-> "none"]

OutcomeIdle == outcome_call = NoCall

NoResponse == [outcome |-> "idle"]

IngestIdle ==
    /\ ingest_calls = 0
    /\ ingest_response = NoResponse

RaceIdle == tasks = <<>>

CycleIdle == daily_runs = <<>>

----------------------------------------------------------------------------
(* The rating specification: RatingEngine.rate_customer_period over the inputs *)

ReadingTables ==
    {ForeignRows \cup UsageRows(WF, usage.wf) \cup UsageRows(LLM, usage.llm)
       \cup UsageRows(API, usage.api) \cup UsageRows(NEU, usage.neu) :
     usage \in UsageChoices}

Init ==
    /\ meter_readings \in ReadingTables
    /\ policy \in Policies
    /\ rated_usage = {}
    /\ outcome_verifications = SettledOutcomes
    /\ workflow_runs = SettledRuns
    /\ cost_records = CostRecords
    /\ now = PeriodEnd
    /\ result = NoResult
    /\ store_result = {}
    /\ store_calls = 0
    /\ TierIdle
    /\ ImportIdle
    /\ DeriverIdle
    /\ OutcomeIdle
    /\ IngestIdle
    /\ RaceIdle
    /\ CycleIdle

\* RatingEngine.rate_customer_period(Customer, period, policy)
RateCustomerPeriod ==
    /\ result.outcome = "idle"
    /\ result' = rate_customer_period(Customer, PeriodStart, PeriodEnd, policy)
    /\ UNCHANGED <<meter_readings, rated_usage, outcome_verifications, workflow_runs,
                   cost_records, now, policy, store_result, store_calls>>
    /\ UNCHANGED <<tier_vars, import_vars, deriver_vars>>
    /\ UNCHANGED <<outcome_vars, ingest_vars, race_vars, cycle_vars>>

Next == RateCustomerPeriod

Spec == Init /\ [][Next]_vars

----------------------------------------------------------------------------
(* The storing specification: RatingService.rate_and_store, called repeatedly *)

\* A row for (Customer, period) written with the declared columns, as the tests
\* of the usage alerts write it.
ExistingRatedUsage ==
    RatedUsage([customer_id |-> Customer, period_start |-> PeriodStart,
                period_end |-> PeriodEnd, items_json |-> <<>>, subtotal |-> Dec(1),
                cogs |-> 0, margin |-> Dec(1)])

StorePolicies ==
    {pol \in Policies :
       /\ pol.precedence = "work_over_edges"
       /\ pol.meter_pricing = Pricing1
       /\ pol.exclusions = <<>>}

InitStore ==
    /\ meter_readings \in ReadingTables
    /\ policy \in StorePolicies
    /\ rated_usage \in {{}, {ExistingRatedUsage}}
    /\ outcome_verifications = SettledOutcomes
    /\ workflow_runs = SettledRuns
    /\ cost_records = CostRecords
    /\ now = PeriodEnd
    /\ result = NoResult
    /\ store_result = {}
    /\ store_calls = 0
    /\ TierIdle
    /\ ImportIdle
    /\ DeriverIdle
    /\ OutcomeIdle
    /\ IngestIdle
    /\ RaceIdle
    /\ CycleIdle

\* RatingService.rate_and_store after rate_customer_period gave `res`: the result
\* is stored, and an exception of either step propagates to the caller.
rate_and_store(table, res) ==
    IF res.outcome = "raised"
    THEN [result |-> res, table |-> table, raised |-> res.raised]
    ELSE LET stored == _store_rated_usage(table, res)
         IN [result |-> IF stored.raised = {} THEN res
                        ELSE [res EXCEPT !.outcome = "raised",
                                         !.raised = stored.raised],
             table |-> stored.table, raised |-> stored.raised]

\* RatingService.rate_and_store(Customer, period, policy)
RateAndStore ==
    /\ store_calls < MaxCalls
    /\ store_calls' = store_calls + 1
    /\ \E res \in {rate_customer_period(Customer, PeriodStart, PeriodEnd, policy)} :
         \E done \in {rate_and_store(rated_usage, res)} :
            /\ result' = done.result
            /\ rated_usage' = done.table
            /\ store_result' = done.raised
    /\ UNCHANGED <<meter_readings, outcome_verifications, workflow_runs, cost_records,
                   now, policy>>
    /\ UNCHANGED <<tier_vars, import_vars, deriver_vars>>
    /\ UNCHANGED <<outcome_vars, ingest_vars, race_vars, cycle_vars>>

NextStore == RateAndStore

StoreSpec == InitStore /\ [][NextStore]_vars

----------------------------------------------------------------------------
(* The tiered-pricing specification: calculate_tiered_pricing over tier lists *)

MaxTiers == 2

MaxUsage == 4

\* Tiers with a unit price and a flat fee >= 0: contiguous, overlapping, with a
\* gap, or empty ranges.
PlainTiers ==
    {Tier(min_usage, max_usage, unit_price, flat_fee) :
       min_usage \in {0, Dec(2)},
       max_usage \in {{}, {Dec(2)}, {Dec(3)}},
       unit_price \in {Dec(1), Dec(2)},
       flat_fee \in {0, Dec(1)}}

\* PricingTier accepts any Decimal: tiers with a negative unit price or flat fee.
CreditTiers ==
    {Tier(0, {}, 0 - Dec(1), 0), Tier(0, {Dec(2)}, Dec(1), 0 - Dec(1)),
     Tier(Dec(2), {}, 0 - Dec(1), Dec(1))}

PricingTiers == PlainTiers \cup CreditTiers

TierLists ==
    UNION {[1..n -> PricingTiers] : n \in 0..MaxTiers}

InitTier ==
    /\ tier_pricing \in {MeterPricing(LLM, 0, tiers) : tiers \in TierLists}
    /\ tier_usages \in {<<Dec(x), Dec(y)>> : x \in 0..MaxUsage, y \in 0..MaxUsage}
    /\ tier_amounts = {}
    /\ meter_readings = {}
    /\ RatingIdle
    /\ ImportIdle
    /\ DeriverIdle
    /\ OutcomeIdle
    /\ IngestIdle
    /\ RaceIdle
    /\ CycleIdle

\* calculate_tiered_pricing(x, P) and calculate_tiered_pricing(y, P)
CalculateTieredPricing ==
    /\ tier_amounts = {}
    /\ tier_amounts' = {<<calculate_tiered_pricing(tier_usages[1], tier_pricing),
                     calculate_tiered_pricing(tier_usages[2], tier_pricing)>>}
    /\ UNCHANGED <<meter_readings, tier_pricing, tier_usages, rating_vars, import_vars,
                   deriver_vars>>
    /\ UNCHANGED <<outcome_vars, ingest_vars, race_vars, cycle_vars>>

NextTier == CalculateTieredPricing

TierSpec == InitTier /\ [][NextTier]_vars

----------------------------------------------------------------------------
(* Properties of a returned RatingResult *)

Returned == result.outcome = "returned"

\* The rows of a meter that belong to Customer and lie inside the period.
PeriodRows(meter_key) ==
    {r \in meter_readings :
       /\ r.customer_id = Customer
       /\ r.meter_key = meter_key
       /\ r.window_start >= PeriodStart
       /\ r.window_end <= PeriodEnd}

PeriodUsage(meter_key) == SumValue(PeriodRows(meter_key))

LinesOf(meter_key) ==
    {i \in 1..Len(result.lines) : result.lines[i].meter_key = meter_key}

\* C1: every returned RatingResult has subtotal equal to the sum of the amounts of
\* its lines, total equal to subtotal minus discount_amount, and total >= 0.
C1_Totals ==
    Returned =>
      /\ result.subtotal = SumSeq(LineAmounts(result.lines))
      /\ result.total = result.subtotal - result.discount_amount
      /\ result.total >= 0

\* The part of C1 the engine keeps: subtotal is the sum of the line amounts and
\* total is subtotal minus discount_amount.
C1_SumAndDifference ==
    Returned =>
      /\ result.subtotal = SumSeq(LineAmounts(result.lines))
      /\ result.total = result.subtotal - result.discount_amount

\* C2: whenever policy.spend_cap is set the total of a returned RatingResult never
\* exceeds it, and a total that exceeded it before capping becomes spend_cap with
\* discount_amount increased by exactly the excess.
C2_SpendCap ==
    Returned =>
      \A spend_cap \in policy.spend_cap :
         LET discount == Mul(result.subtotal, policy.discount_percent \div 100)
             uncapped == result.subtotal - discount
         IN /\ result.total <= spend_cap
            /\ uncapped > spend_cap =>
                 /\ result.total = spend_cap
                 /\ result.discount_amount = discount + (uncapped - spend_cap)

\* C3: every envelope of a returned RatingResult has consumed + remaining =
\* allocated and 0 <= consumed <= allocated, under any precedence, usage and quota.
C3_Envelopes ==
    Returned =>
      \A meter \in DOMAIN result.envelopes :
         LET envelope == result.envelopes[meter]
         IN /\ envelope.consumed + envelope.remaining = envelope.allocated
            /\ 0 <= envelope.consumed
            /\ envelope.consumed <= envelope.allocated

\* C4: if an exclusion {when: w, drop: [e]} fires (the usage of w in the period is
\* positive), the returned RatingResult has no line for meter e.
C4_ExclusionSoundness ==
    Returned =>
      \A i \in 1..Len(policy.exclusions) :
         \A w \in policy.exclusions[i].when :
            PeriodUsage(w) > 0 =>
              \A e \in SeqRange(policy.exclusions[i].drop) : LinesOf(e) = {}

\* An exclusion fired on a period in which the dropped meter had usage and a
\* price, and the result still carries lines.
C4_Witness ==
    /\ Returned
    /\ result.lines # <<>>
    /\ \E i \in 1..Len(policy.exclusions) :
          /\ \E w \in policy.exclusions[i].when : PeriodUsage(w) > 0
          /\ \E e \in SeqRange(policy.exclusions[i].drop) :
                PeriodRows(e) # {} /\ e \in DOMAIN policy.meter_pricing

AllocatedTo(meter_key) ==
    IF meter_key \in DOMAIN result.envelopes
    THEN result.envelopes[meter_key].allocated
    ELSE 0

\* C5: under work_over_edges the billable quantity of an edge meter's line is
\* max(0, usage - included_quota - envelope allocated to the meter), and the
\* line's amount is 0 when the usage fits within included_quota plus the envelope.
C5_WorkOverEdgesBillable ==
    (Returned /\ policy.precedence = "work_over_edges") =>
      \A i \in 1..Len(result.lines) :
         LET line == result.lines[i]
             covered == policy.meter_pricing[line.meter_key].included_quota
                          + AllocatedTo(line.meter_key)
         IN is_edge_meter(line.meter_key) =>
              /\ line.usage_quantity = PeriodUsage(line.meter_key)
              /\ line.billable_quantity = Max(0, PeriodUsage(line.meter_key) - covered)
              /\ PeriodUsage(line.meter_key) <= covered => line.amount = 0

\* An edge line under work_over_edges whose usage exceeds a positive included
\* quota plus a positive envelope, next to one that fits within them.
C5_Witness ==
    /\ Returned
    /\ policy.precedence = "work_over_edges"
    /\ \E i \in 1..Len(result.lines) :
          LET line == result.lines[i]
          IN /\ is_edge_meter(line.meter_key)
             /\ AllocatedTo(line.meter_key) > 0
             /\ policy.meter_pricing[line.meter_key].included_quota > 0
             /\ line.billable_quantity > 0
             /\ line.amount > 0
    /\ \E i \in 1..Len(result.lines) :
          LET line == result.lines[i]
          IN /\ is_edge_meter(line.meter_key)
             /\ AllocatedTo(line.meter_key) > 0
             /\ line.usage_quantity > 0
             /\ line.amount = 0

----------------------------------------------------------------------------
(* Properties of the rating engine: overage_spill, base fee, neutral meters *)

EdgeLinesWithEnvelope ==
    {i \in 1..Len(result.lines) :
       /\ is_edge_meter(result.lines[i].meter_key)
       /\ policy.precedence \in {"work_over_edges", "parallel"}}

\* C17: when policy.overage_spill is false, every edge meter rated with envelope
\* gets billable quantity 0 and amount 0, however far its usage exceeds the
\* included quota plus the envelope.
C17_NoSpillNoBilling ==
    (Returned /\ ~policy.overage_spill) =>
      \A i \in EdgeLinesWithEnvelope :
         /\ result.lines[i].billable_quantity = 0
         /\ result.lines[i].amount = 0

BaseFeeLines == {i \in 1..Len(result.lines) : result.lines[i].line_type = "base_fee"}

\* C18: with policy.base_fee > 0 the RatingResult of rate_customer_period has
\* exactly one line of type base_fee, of amount policy.base_fee, whatever
\* readings are loaded for the period; with base_fee = 0 it has none.
C18_BaseFeeLine ==
    Returned =>
      IF policy.base_fee > 0
      THEN /\ Cardinality(BaseFeeLines) = 1
           /\ \A i \in BaseFeeLines : result.lines[i].amount = policy.base_fee
      ELSE BaseFeeLines = {}

\* The base fee line as the engine appends it: present once some reading of the
\* customer lies in the period.
C18_BaseFeeLineWithUsage ==
    (Returned /\ \E r \in meter_readings :
                    /\ r.customer_id = Customer
                    /\ r.window_start >= PeriodStart
                    /\ r.window_end <= PeriodEnd) =>
      IF policy.base_fee > 0
      THEN /\ Cardinality(BaseFeeLines) = 1
           /\ \A i \in BaseFeeLines : result.lines[i].amount = policy.base_fee
      ELSE BaseFeeLines = {}

is_neutral_meter(meter_key) == ~is_work_meter(meter_key) /\ ~is_edge_meter(meter_key)

NeutralMetersUsed ==
    {r.meter_key : r \in {row \in meter_readings :
                            /\ is_neutral_meter(row.meter_key)
                            /\ PeriodRows(row.meter_key) # {}}}

\* C19: a meter key that matches neither a work prefix nor an edge prefix is
\* neutral: it produces a rated line if and only if pricing is declared for it,
\* and it never takes part in envelopes or exclusions.
C19_NeutralBilledIffPriced ==
    Returned =>
      \A meter_key \in NeutralMetersUsed :
         /\ LinesOf(meter_key) # {} <=> meter_key \in DOMAIN policy.meter_pricing
         /\ meter_key \notin DOMAIN result.envelopes

EdgeLines == {i \in 1..Len(result.lines) : result.lines[i].line_type = "edge"}

IncludedQuota(meter_key) == policy.meter_pricing[meter_key].included_quota

\* Half of the envelope allocated to the meter, 0 for a meter without envelope.
HalfEnvelope(meter_key) == Mul(AllocatedTo(meter_key), Dec(1) \div 2)

\* C27: under edges_over_work every edge meter is rated without envelope
\* (billable = max(0, usage - included_quota)) and every envelope of the result
\* keeps consumed = 0 and remaining = allocated; under parallel the envelope
\* available to an edge meter is its remaining envelope times 0.5.
C27_EnvelopeByPrecedence ==
    Returned =>
      /\ policy.precedence = "edges_over_work" =>
           /\ \A i \in EdgeLines :
                 LET line == result.lines[i]
                 IN /\ line.usage_quantity = PeriodUsage(line.meter_key)
                    /\ line.billable_quantity =
                         Max(0, line.usage_quantity - IncludedQuota(line.meter_key))
                    /\ line.envelope_consumed = 0
           /\ \A meter \in DOMAIN result.envelopes :
                 /\ result.envelopes[meter].consumed = 0
                 /\ result.envelopes[meter].remaining = result.envelopes[meter].allocated
      /\ policy.precedence = "parallel" =>
           \A i \in EdgeLines :
              LET line == result.lines[i]
              IN /\ line.usage_quantity = PeriodUsage(line.meter_key)
                 /\ line.envelope_consumed = HalfEnvelope(line.meter_key)
                 /\ line.billable_quantity =
                      Max(0, line.usage_quantity - IncludedQuota(line.meter_key)
                               - HalfEnvelope(line.meter_key))

\* Under parallel an edge line is billed for usage that the whole envelope would
\* have covered in part: the billable quantity is larger than usage minus quota
\* minus the allocated envelope.
C27_Witness ==
    /\ Returned
    /\ policy.precedence = "parallel"
    /\ \E i \in EdgeLines :
          LET line == result.lines[i]
          IN /\ AllocatedTo(line.meter_key) > 0
             /\ IncludedQuota(line.meter_key) > 0
             /\ line.billable_quantity > 0
             /\ line.billable_quantity >
                  line.usage_quantity - IncludedQuota(line.meter_key)
                    - AllocatedTo(line.meter_key)

WorkOrEdgeLines ==
    {i \in 1..Len(result.lines) : result.lines[i].line_type \in {"work", "edge"}}

\* What the rating of the meter added to its envelope's consumed, which starts
\* at 0 when the envelope is allocated; 0 for a meter without envelope.
EnvelopeIncrease(meter_key) ==
    IF meter_key \in DOMAIN result.envelopes
    THEN result.envelopes[meter_key].consumed
    ELSE 0

\* C30: every work or edge line of a RatingResult accounts for its usage
\* exactly: included_consumed + envelope_consumed + billable_quantity =
\* usage_quantity, and the line's envelope_consumed is the amount by which the
\* meter's envelope.consumed was increased while rating it.
C30_LineAccounting ==
    Returned =>
      \A i \in WorkOrEdgeLines :
         LET line == result.lines[i]
         IN /\ line.included_consumed + line.envelope_consumed
                 + line.billable_quantity = line.usage_quantity
            /\ line.envelope_consumed = EnvelopeIncrease(line.meter_key)

\* The accounting of the lines rated without envelope: work lines, and edge
\* lines under edges_over_work.
C30_PlainLineAccounting ==
    Returned =>
      \A i \in WorkOrEdgeLines :
         LET line == result.lines[i]
         IN (line.line_type = "work" \/ policy.precedence = "edges_over_work") =>
               /\ line.included_consumed + line.billable_quantity = line.usage_quantity
               /\ line.envelope_consumed = 0

----------------------------------------------------------------------------
(* The envelope specification: apply_exclusions and allocate_work_envelopes as
   rate_customer_period calls them, over readings and policies *)

Allowances2 ==
    (WF :> (LLM :> Dec(1))) @@ (OT :> ((LLM :> Dec(2)) @@ (API :> Dec(1))))

\* A mapping that also names meters that are no work meters as if they were.
Allowances3 ==
    (WF :> (LLM :> Dec(1))) @@ (LLM :> (API :> Dec(1))) @@ (NEU :> (LLM :> Dec(3)))

Exclusions2 == <<[when |-> {OT}, drop |-> <<WF>>]>>

EnvelopePolicies ==
    {[NoPolicy EXCEPT !.edges_included_per_work = allowances, !.exclusions = exclusions] :
       allowances \in {EmptyMap, Allowances1, Allowances2, Allowances3},
       exclusions \in {<<>>, Exclusions1, Exclusions2}}

EnvelopeUsageShapes ==
    [wf : {{}, {0}, {2}}, ot : {{}, {1}}, llm : {{}, {3}}, neu : {{}, {1}}]

EnvelopeTables ==
    {ForeignRows \cup UsageRows(WF, usage.wf) \cup UsageRows(OT, usage.ot)
       \cup UsageRows(LLM, usage.llm) \cup UsageRows(NEU, usage.neu) :
     usage \in EnvelopeUsageShapes}

InitEnvelope ==
    /\ meter_readings \in EnvelopeTables
    /\ policy \in EnvelopePolicies
    /\ rated_usage = {}
    /\ outcome_verifications = {}
    /\ workflow_runs = {}
    /\ cost_records = {}
    /\ now = PeriodEnd
    /\ result = NoResult
    /\ store_result = {}
    /\ store_calls = 0
    /\ TierIdle
    /\ ImportIdle
    /\ DeriverIdle
    /\ OutcomeIdle
    /\ IngestIdle
    /\ RaceIdle
    /\ CycleIdle

\* envelopes = allocate_work_envelopes(apply_exclusions(usage_readings, policy),
\* policy) for the readings of (Customer, period)
AllocateWorkEnvelopes ==
    /\ result.outcome = "idle"
    /\ \E usage_readings \in {_load_meter_readings(Customer, PeriodStart, PeriodEnd)} :
       \E filtered_readings \in {apply_exclusions(usage_readings, policy)} :
          result' = [NoResult EXCEPT
                       !.outcome = "allocated",
                       !.envelopes = allocate_work_envelopes(filtered_readings, policy)]
    /\ UNCHANGED <<meter_readings, rated_usage, outcome_verifications, workflow_runs,
                   cost_records, now, policy, store_result, store_calls>>
    /\ UNCHANGED <<tier_vars, import_vars, deriver_vars>>
    /\ UNCHANGED <<outcome_vars, ingest_vars, race_vars, cycle_vars>>

NextEnvelope == AllocateWorkEnvelopes

EnvelopeSpec == InitEnvelope /\ [][NextEnvelope]_vars

----------------------------------------------------------------------------
(* Properties of allocate_work_envelopes *)

Allocated == result.outcome = "allocated"

AllMeterKeys == {MeterOrder[i] : i \in 1..Len(MeterOrder)}

\* The meter is dropped by an exclusion whose `when` meter has positive usage.
Excluded(meter_key) ==
    \E i \in 1..Len(policy.exclusions) :
       /\ \E w \in policy.exclusions[i].when : PeriodUsage(w) > 0
       /\ \E j \in 1..Len(policy.exclusions[i].drop) :
             policy.exclusions[i].drop[j] = meter_key

\* The work meters with positive usage in the period that no exclusion removes.
AllocatingWorkMeters ==
    {w \in AllMeterKeys : is_work_meter(w) /\ PeriodUsage(w) > 0 /\ ~Excluded(w)}

RECURSIVE SumAllowances(_, _)
SumAllowances(work_meters, edge_meter) ==
    IF work_meters = {} THEN 0
    ELSE LET w == CHOOSE x \in work_meters : TRUE
             allowance == Get(Get(policy.edges_included_per_work, w, EmptyMap),
                              edge_meter, 0)
         IN Mul(PeriodUsage(w), allowance)
            + SumAllowances(work_meters \ {w}, edge_meter)

\* C20: allocate_work_envelopes gives each edge meter an envelope equal to the
\* sum, over the work meters with positive usage, of work usage times the
\* allowance per unit of work for that edge meter; meters that are not work
\* meters allocate nothing, and readings removed by an exclusion allocate nothing.
C20_EnvelopeAllocation ==
    Allocated =>
      \A edge_meter \in AllMeterKeys \cup DOMAIN result.envelopes :
         Get(result.envelopes, edge_meter, 0)
           = SumAllowances(AllocatingWorkMeters, edge_meter)

\* Two work meters with positive usage allocate to llm.tokens, and the policy
\* names an allowance for it.
C20_Witness ==
    /\ Allocated
    /\ policy.edges_included_per_work = Allowances2
    /\ policy.exclusions = <<>>
    /\ PeriodUsage(WF) > 0
    /\ PeriodUsage(OT) > 0
    /\ LLM \in DOMAIN result.envelopes
    /\ result.envelopes[LLM] > Mul(PeriodUsage(WF), Dec(1))
    /\ result.envelopes[LLM] > Mul(PeriodUsage(OT), Dec(2))

----------------------------------------------------------------------------
(* Properties of rate_and_store *)

StoredRows ==
    {row \in rated_usage :
       /\ row.customer_id = {Customer}
       /\ row.period_start = {PeriodStart}
       /\ row.period_end = {PeriodEnd}}

\* C7: two calls of rate_and_store for the same customer and period, with
\* unchanged readings, outcomes and policy, leave exactly one RatedUsage row for
\* (customer_id, period_start, period_end).
C7_OneRowAfterTwoCalls == store_calls >= 2 => Cardinality(StoredRows) = 1

----------------------------------------------------------------------------
(* Properties of calculate_tiered_pricing *)

\* C6: tiered pricing is monotone: for every MeterPricing P and all usages
\* x <= y, calculate_tiered_pricing(x, P) <= calculate_tiered_pricing(y, P).
C6_Monotone ==
    \A amount \in tier_amounts :
       tier_usages[1] <= tier_usages[2] => amount[1] <= amount[2]

NonNegativeTiers(tiers) ==
    \A i \in 1..Len(tiers) : tiers[i].unit_price >= 0 /\ tiers[i].flat_fee >= 0

\* C6, amended: tiered pricing is monotone for every MeterPricing whose tiers
\* have a unit_price >= 0 and a flat_fee >= 0.
C6_MonotoneNonNegative ==
    \A amount \in tier_amounts :
       (NonNegativeTiers(tier_pricing.tiers) /\ tier_usages[1] <= tier_usages[2])
         => amount[1] <= amount[2]

\* Two tiers with prices and fees >= 0, both charged for the larger usage, only
\* the first one for the smaller usage.
C6_Witness ==
    /\ Len(tier_pricing.tiers) = 2
    /\ NonNegativeTiers(tier_pricing.tiers)
    /\ tier_pricing.tiers[2].flat_fee > 0
    /\ tier_pricing.tiers[1].max_usage # {}
    /\ tier_pricing.tiers[1].unit_price > tier_pricing.tiers[2].unit_price
    /\ tier_usages[1] < tier_usages[2]
    /\ \E amount \in tier_amounts :
          /\ 0 < amount[1]
          /\ amount[1] < amount[2]
          /\ amount[2] > Mul(tier_usages[2], tier_pricing.tiers[2].unit_price)
                           + tier_pricing.tiers[2].flat_fee

\* Ordered, contiguous, non-overlapping tiers: each tier but the last ends where
\* the next one starts, and none is empty.
ContiguousTiers(tiers) ==
    /\ tiers # <<>>
    /\ \A i \in 1..Len(tiers) :
          /\ \A max_usage \in tiers[i].max_usage : tiers[i].min_usage < max_usage
          /\ i < Len(tiers) => tiers[i].max_usage = {tiers[i + 1].min_usage}

\* The part of [0, usage) that lies within [tier.min_usage, tier.max_usage or
\* infinity).
UsageWithin(usage, tier) ==
    LET upto == IF tier.max_usage = {} THEN usage
                ELSE Min(usage, CHOOSE m \in tier.max_usage : TRUE)
    IN Max(0, upto - tier.min_usage)

RECURSIVE SumOverTiers(_, _, _)
SumOverTiers(usage, tiers, i) ==
    IF i > Len(tiers) THEN 0
    ELSE (IF UsageWithin(usage, tiers[i]) > 0
          THEN Mul(UsageWithin(usage, tiers[i]), tiers[i].unit_price) + tiers[i].flat_fee
          ELSE 0)
         + SumOverTiers(usage, tiers, i + 1)

\* C26: for ordered contiguous non-overlapping tiers calculate_tiered_pricing
\* returns the sum over the tiers of the part of the usage within [min_usage,
\* max_usage or infinity) times unit_price, plus flat_fee once for each tier that
\* contributes any usage; the ranges are left-closed.
C26_TieredSum ==
    \A amount \in tier_amounts :
       ContiguousTiers(tier_pricing.tiers) =>
         /\ amount[1] = SumOverTiers(tier_usages[1], tier_pricing.tiers, 1)
         /\ amount[2] = SumOverTiers(tier_usages[2], tier_pricing.tiers, 1)

\* Two contiguous tiers, the second with a flat fee: the first usage ends exactly
\* at their boundary and is charged for the first tier only; the second usage
\* goes beyond it and is charged for both.
C26_Witness ==
    /\ Len(tier_pricing.tiers) = 2
    /\ ContiguousTiers(tier_pricing.tiers)
    /\ tier_pricing.tiers[2].flat_fee > 0
    /\ tier_usages[1] = tier_pricing.tiers[2].min_usage
    /\ tier_usages[2] > tier_pricing.tiers[2].min_usage
    /\ \E amount \in tier_amounts :
          /\ amount[1] = Mul(tier_usages[1], tier_pricing.tiers[1].unit_price)
                           + tier_pricing.tiers[1].flat_fee
          /\ amount[2] = amount[1]
                           + Mul(tier_usages[2] - tier_usages[1],
                                 tier_pricing.tiers[2].unit_price)
                           + tier_pricing.tiers[2].flat_fee

----------------------------------------------------------------------------
(* The import specification: the same collected samples stored repeatedly *)

MaxImports == 2

CustomerLabel == "customer_id"

At(minute, second) == [minute |-> minute, second |-> second]

\* Samples of existing customers, of a customer that has no row, with a label
\* that is no UUID, and with no customer label.
DataPointPool ==
    {MetricDataPoint(1, [customer_id |-> "c1"], At(0, 10), Dec(1)),
     MetricDataPoint(2, [customer_id |-> "c1"], At(0, 40), Dec(2)),
     MetricDataPoint(3, [customer_id |-> "c1"], At(1, 5), Dec(1)),
     MetricDataPoint(4, [customer_id |-> "c2"], At(0, 10), Dec(3)),
     MetricDataPoint(5, [customer_id |-> "c9"], At(0, 10), Dec(1)),
     MetricDataPoint(6, [customer_id |-> "not-a-uuid"], At(0, 10), Dec(1)),
     MetricDataPoint(7, [region |-> "eu"], At(0, 10), Dec(1))}

\* A reading the deriver made for the window that starts with the first samples.
DerivedApiCalls == MeterReading(Customer, API, 0, Dec(4), <<1>>)

InitImport ==
    /\ customers = {Customer, OtherCustomer}
    /\ \E data_points \in SUBSET DataPointPool, success \in BOOLEAN,
          scaling_factor \in {Dec(1), Dec(2)} :
          collection = {[result |-> [success |-> success, data_points |-> data_points],
                         mapping |-> MetricMapping(API, CustomerLabel, scaling_factor)]}
    /\ import_calls = 0
    /\ meter_readings \in {{}, {DerivedApiCalls}}
    /\ RatingIdle
    /\ TierIdle
    /\ DeriverIdle
    /\ OutcomeIdle
    /\ IngestIdle
    /\ RaceIdle
    /\ CycleIdle

\* MetricsCollectionService._transform_and_store_metrics(result, mapping)
TransformAndStoreMetrics ==
    /\ import_calls < MaxImports
    /\ \E collected \in collection :
          LET stored == _transform_and_store_metrics(meter_readings, collected.result,
                                                     collected.mapping)
          IN meter_readings' = stored.table
    /\ import_calls' = import_calls + 1
    /\ UNCHANGED <<customers, collection, rating_vars, tier_vars, deriver_vars>>
    /\ UNCHANGED <<outcome_vars, ingest_vars, race_vars, cycle_vars>>

NextImport == TransformAndStoreMetrics

ImportSpec == InitImport /\ [][NextImport]_vars

\* C8: running the import again over the same window with the same returned
\* samples emits no new MeterReadings and leaves the value of every existing
\* MeterReading unchanged.
C8_ImportIdempotent ==
    [][(import_calls >= 1 /\ import_calls' = import_calls + 1)
         => meter_readings' = meter_readings]_vars

----------------------------------------------------------------------------
(* The upsert specification: different collected batches stored in any order *)

\* The batches a connector returns for one mapping: at most two samples of the
\* existing customers, in the first two minutes.
UpsertBatches ==
    {data_points \in SUBSET {d \in DataPointPool : d.index <= 4} :
       Cardinality(data_points) <= 2}

\* A reading an earlier import made for the first minute.
ImportedApiCalls ==
    [customer_id |-> Customer, meter_key |-> API, window_start |-> 0,
     window_end |-> 1, value |-> Dec(1), src_event_ids |-> <<>>]

\* The collections still to store (done = FALSE) and the stored ones.
InitUpsert ==
    /\ customers = {Customer, OtherCustomer}
    /\ \E batches \in [1..MaxImports -> UpsertBatches],
          scaling_factor \in {Dec(1), Dec(2)} :
          collection = {[id |-> id, done |-> FALSE,
                         result |-> [success |-> TRUE, data_points |-> batches[id]],
                         mapping |-> MetricMapping(API, CustomerLabel, scaling_factor)] :
                        id \in 1..MaxImports}
    /\ import_calls = 0
    /\ meter_readings \in {{}, {DerivedApiCalls}, {DerivedApiCalls, ImportedApiCalls}}
    /\ RatingIdle
    /\ TierIdle
    /\ DeriverIdle
    /\ OutcomeIdle
    /\ IngestIdle
    /\ RaceIdle
    /\ CycleIdle

\* MetricsCollectionService._transform_and_store_metrics(result, mapping) for one
\* of the collections not stored yet, in any order.
UpsertMetrics ==
    /\ \E collected \in {c \in collection : ~c.done} :
          \E stored \in {_transform_and_store_metrics(meter_readings, collected.result,
                                                      collected.mapping)} :
             /\ meter_readings' = stored.table
             /\ collection' = (collection \ {collected})
                                 \cup {[collected EXCEPT !.done = TRUE]}
    /\ import_calls' = import_calls + 1
    /\ UNCHANGED <<customers, rating_vars, tier_vars, deriver_vars>>
    /\ UNCHANGED <<outcome_vars, ingest_vars, race_vars, cycle_vars>>

NextUpsert == UpsertMetrics

UpsertSpec == InitUpsert /\ [][NextUpsert]_vars

\* The scaled values the stored collections hold for (customer_id, window_start).
RECURSIVE UpsertedValue(_, _, _)
UpsertedValue(collections, customer_id, window_start) ==
    IF collections = {} THEN 0
    ELSE LET c == CHOOSE x \in collections : TRUE
             samples == {d \in c.result.data_points :
                           /\ d.labels.customer_id = customer_id
                           /\ d.timestamp.minute = window_start}
         IN SumTransformed(samples, c.mapping)
            + UpsertedValue(collections \ {c}, customer_id, window_start)

StoredCollections == {c \in collection : c.done}

UpsertedKeys ==
    {<<d.labels.customer_id, d.timestamp.minute>> :
       d \in UNION {c.result.data_points : c \in StoredCollections}}

ReadingsOf(customer_id, meter_key, window_start, window_end) ==
    {r \in meter_readings :
       /\ r.customer_id = customer_id
       /\ r.meter_key = meter_key
       /\ r.window_start = window_start
       /\ r.window_end = window_end}

UpsertSumInOneRow(key) ==
    /\ Cardinality(ReadingsOf(key[1], API, key[2], key[2] + 1)) = 1
    /\ \A r \in ReadingsOf(key[1], API, key[2], key[2] + 1) :
          r.value = UpsertedValue(StoredCollections, key[1], key[2])

\* C11: for any (customer, meter, window), upserting a set of values in any order
\* leaves a single row for that key whose value is the sum of the upserted values.
C11_UpsertAdditive == \A key \in UpsertedKeys : UpsertSumInOneRow(key)

\* From a table without readings of other window lengths, the stored value is
\* the sum of the upserted values in whichever order the collections came.
C11_AdditiveFromEmpty ==
    (\A r \in meter_readings : r.window_end = r.window_start + 1)
       => C11_UpsertAdditive

----------------------------------------------------------------------------
(* The outcome specification: outcome verifications created, verified, reversed, *)
(* and queried for settlement while the clock advances                           *)

MaxOutcomes == 2

MaxNow == 2

OutcomeRuns ==
    {[id |-> "run1", customer_id |-> Customer, started_at |-> PeriodStart + 1],
     [id |-> "run2", customer_id |-> Customer, started_at |-> PeriodEnd],
     [id |-> "run3", customer_id |-> OtherCustomer, started_at |-> PeriodStart + 1]}

Gold == [tier |-> "gold"]

\* Arguments of create_outcome_verification: run, outcome key, external system,
\* external reference, settlement days, metadata.
CreateCalls ==
    {<<"run1", OT, {}, {}, 0, {}>>,
     <<"run1", OT, {"crm"}, {"ref1"}, 1, {Gold}>>,
     <<"run2", OT, {}, {}, 0, {Gold}>>,
     <<"run3", OT, {"crm"}, {"ref1"}, 0, {EmptyMap}>>,
     <<"run1", OD, {}, {}, 0, {[tier |-> "silver"]}>>}

SettledConditions == {EmptyMap, Gold}

FeeConfigLists ==
    {<<SuccessFeeConfig(OT, [price_per_unit |-> Dec(2)])>>,
     <<SuccessFeeConfig(OT, [price_per_unit |-> Dec(3), conditions |-> Gold]),
       SuccessFeeConfig(OD, [price_per_unit |-> Dec(1)])>>}

InitOutcome ==
    /\ outcome_verifications = {}
    /\ workflow_runs = OutcomeRuns
    /\ now = 0
    /\ outcome_call = NoCall
    /\ meter_readings = {}
    /\ rated_usage = {}
    /\ cost_records = {}
    /\ policy = NoPolicy
    /\ result = NoResult
    /\ store_result = {}
    /\ store_calls = 0
    /\ TierIdle
    /\ ImportIdle
    /\ DeriverIdle
    /\ IngestIdle
    /\ RaceIdle
    /\ CycleIdle

OutcomeFrame ==
    UNCHANGED <<meter_readings, rated_usage, workflow_runs, cost_records, policy, result,
                store_result, store_calls, tier_vars, import_vars, deriver_vars,
                ingest_vars, race_vars, cycle_vars>>

\* OutcomeVerificationManager.create_outcome_verification(...)
CreateOutcomeVerification ==
    /\ Cardinality(outcome_verifications) < MaxOutcomes
    /\ \E args \in CreateCalls :
          outcome_verifications' =
              create_outcome_verification(outcome_verifications, args[1], args[2],
                                          args[3], args[4], args[5], args[6])
    /\ outcome_call' = [op |-> "create_outcome_verification"]
    /\ UNCHANGED now
    /\ OutcomeFrame

\* OutcomeVerificationManager.verify_outcome(verification_id, verified, reason)
VerifyOutcome ==
    /\ \E verification_id \in 1..MaxOutcomes, verified \in BOOLEAN :
          \E done \in {verify_outcome(outcome_verifications, verification_id, verified,
                                       IF verified THEN {} ELSE {"disputed"})} :
             /\ outcome_verifications' = done.table
             /\ outcome_call' = [op |-> "verify_outcome", raised |-> done.raised]
    /\ UNCHANGED now
    /\ OutcomeFrame

\* SuccessFeeBilling.process_external_verification("ref1", "crm", verified, data)
ProcessExternalVerification ==
    /\ \E verified \in BOOLEAN, tracked \in BOOLEAN,
          verification_data \in {EmptyMap, [reason |-> "chargeback"]} :
          \E done \in {process_external_verification(outcome_verifications, "ref1", "crm",
                                                      verified, verification_data,
                                                      tracked)} :
             /\ outcome_verifications' = done.table
             /\ outcome_call' = [op |-> "process_external_verification",
                                 raised |-> done.raised]
    /\ UNCHANGED now
    /\ OutcomeFrame

\* OutcomeVerificationManager.get_settled_outcomes(Customer, key, period, conditions)
GetSettledOutcomes ==
    /\ \E outcome_key \in {OT, OD}, conditions \in SettledConditions :
          outcome_call' =
              [op |-> "get_settled_outcomes", customer_id |-> Customer,
               outcome_key |-> outcome_key, period_start |-> PeriodStart,
               period_end |-> PeriodEnd, conditions |-> conditions,
               returned |-> get_settled_outcomes(Customer, outcome_key, PeriodStart,
                                                 PeriodEnd, conditions)]
    /\ UNCHANGED <<outcome_verifications, now>>
    /\ OutcomeFrame

\* SuccessFeeBilling.calculate_success_fees(Customer, period, configs)
CalculateSuccessFees ==
    /\ \E success_fee_configs \in FeeConfigLists :
          outcome_call' =
              [op |-> "calculate_success_fees", customer_id |-> Customer,
               period_start |-> PeriodStart, period_end |-> PeriodEnd,
               success_fee_configs |-> success_fee_configs,
               returned |-> calculate_success_fees(Customer, PeriodStart, PeriodEnd,
                                                   success_fee_configs)]
    /\ UNCHANGED <<outcome_verifications, now>>
    /\ OutcomeFrame

\* datetime.utcnow() advances between two calls.
Tick ==
    /\ now < MaxNow
    /\ now' = now + 1
    /\ outcome_call' = NoCall
    /\ UNCHANGED outcome_verifications
    /\ OutcomeFrame

NextOutcome ==
    \/ CreateOutcomeVerification
    \/ VerifyOutcome
    \/ ProcessExternalVerification
    \/ GetSettledOutcomes
    \/ CalculateSuccessFees
    \/ Tick

OutcomeSpec == InitOutcome /\ [][NextOutcome]_vars

----------------------------------------------------------------------------
(* Properties of outcome verification and success fees *)

Final(v) == v.status \in {"verified", "reversed"}

StatusKept(v) == \A w \in outcome_verifications' : w.id = v.id => w.status = v.status

\* C12: the only status transitions are pending -> verified and pending ->
\* reversed; once a record is verified or reversed, no later verify_outcome or
\* process_external_verification call changes its status.
C12_TransitionsFinal ==
    [][\A v \in outcome_verifications : Final(v) => StatusKept(v)]_vars

\* process_external_verification alone never changes a verified or reversed record.
C12_ExternalVerificationFinal ==
    [][outcome_call'.op = "process_external_verification"
         => \A v \in outcome_verifications : Final(v) => StatusKept(v)]_vars

\* The customer's records for the key that are verified, past their holdback,
\* whose run started in [period_start, period_end), and whose metadata holds
\* every pair of conditions.
SettledInPeriod(customer_id, outcome_key, period_start, period_end, conditions) ==
    {v \in outcome_verifications :
       /\ v.outcome_key = outcome_key
       /\ v.status = "verified"
       /\ v.holdback_until <= now
       /\ \E run \in workflow_runs :
             /\ run.id = v.workflow_run_id
             /\ run.customer_id = customer_id
             /\ period_start <= run.started_at
             /\ run.started_at < period_end
       /\ \A key \in DOMAIN conditions :
             \E m \in v.outcome_metadata :
                key \in DOMAIN m /\ m[key] = conditions[key]}

\* C13: get_settled_outcomes returns exactly the customer's records for the
\* outcome key that are verified, past their holdback, whose run started in the
\* half-open period, and whose metadata matches every pair of conditions.
C13_SettledExact ==
    outcome_call.op = "get_settled_outcomes"
       => outcome_call.returned =
             SettledInPeriod(outcome_call.customer_id, outcome_call.outcome_key,
                             outcome_call.period_start, outcome_call.period_end,
                             outcome_call.conditions)

\* Pending, reversed and still-held-back records are never returned.
C13_OnlyVerifiedAndReleased ==
    outcome_call.op = "get_settled_outcomes"
       => \A v \in outcome_call.returned : v.status = "verified" /\ v.holdback_until <= now

LinesFor(lines, config) ==
    {i \in DOMAIN lines : /\ lines[i].meter_key = config.meter_key
                          /\ lines[i].unit_price = config.price_per_unit}

FeeLineExact(call, config, settled) ==
    LET for_config == LinesFor(call.returned, config)
    IN IF settled = {} THEN for_config = {}
       ELSE /\ Cardinality(for_config) = 1
            /\ \A i \in for_config :
                  /\ call.returned[i].line_type = "success_fee"
                  /\ call.returned[i].quantity = Cardinality(settled)
                  /\ call.returned[i].amount = Cardinality(settled) * config.price_per_unit

\* C14: calculate_success_fees gives, for each config with at least one settled
\* outcome in the period matching its conditions, exactly one success_fee line
\* whose quantity is the number of those outcomes and whose amount is quantity x
\* price_per_unit; a config with no settled outcome gives no line.
C14_FeeLines ==
    outcome_call.op = "calculate_success_fees"
       => \A i \in DOMAIN outcome_call.success_fee_configs :
             LET config == outcome_call.success_fee_configs[i]
             IN FeeLineExact(outcome_call, config,
                             SettledInPeriod(outcome_call.customer_id, config.meter_key,
                                             outcome_call.period_start,
                                             outcome_call.period_end, config.conditions))

\* The same with the outcomes as get_settled_outcomes returns them.
C14_FeeLinesOfReturnedOutcomes ==
    outcome_call.op = "calculate_success_fees"
       => \A i \in DOMAIN outcome_call.success_fee_configs :
             LET config == outcome_call.success_fee_configs[i]
             IN FeeLineExact(outcome_call, config,
                             get_settled_outcomes(outcome_call.customer_id,
                                                  config.meter_key,
                                                  outcome_call.period_start,
                                                  outcome_call.period_end,
                                                  config.conditions))

----------------------------------------------------------------------------
(* The ingestion specification: OpenTelemetry exports processed one after another *)

MaxExports == 2

Span(customer_text, trace_id, span_id, start_time, end_time, events) ==
    [name |-> "step",
     attributes |-> IF customer_text = {} THEN EmptyMap
                    ELSE BillingCustomerId :> (CHOOSE c \in customer_text : TRUE),
     trace_id |-> trace_id, span_id |-> span_id, start_time |-> start_time,
     end_time |-> end_time, events |-> events]

SpanEvent(name, time) == [name |-> name, time |-> time, attributes |-> EmptyMap]

\* Spans of existing customers, without a customer, with a customer that is no
\* UUID, and of a customer that has no row, without and with a span event.
SpanPool ==
    {Span({"c1"}, "t1", "s1", 1, {2}, <<>>),
     Span({"c1"}, "t1", "s2", 1, {}, <<SpanEvent("ticket resolved", 1)>>),
     Span({"c2"}, "t2", "s3", 3, {}, <<>>),
     Span({}, "t3", "s4", 1, {}, <<>>),
     Span({"not-a-uuid"}, "t3", "s5", 1, {}, <<SpanEvent("retry", 1)>>),
     Span({"c9"}, "t4", "s6", 1, {}, <<>>),
     Span({"c9"}, "t4", "s7", 1, {}, <<SpanEvent("retry", 1)>>)}

\* The spans of one export request, in order.
Exports ==
    {<<>>} \cup {<<a>> : a \in SpanPool} \cup {<<a, b>> : a \in SpanPool, b \in SpanPool}

InitIngest ==
    /\ customers = {Customer, OtherCustomer}
    /\ raw_events = {}
    /\ ingest_calls = 0
    /\ ingest_response = NoResponse
    /\ meter_readings = {}
    /\ collection = {}
    /\ import_calls = 0
    /\ deriver_log = <<>>
    /\ RatingIdle
    /\ TierIdle
    /\ OutcomeIdle
    /\ RaceIdle
    /\ CycleIdle

\* EventProcessor.process_otel_export(request)
ProcessOtelExport ==
    /\ ingest_calls < MaxExports
    /\ ingest_calls' = ingest_calls + 1
    /\ \E spans \in Exports :
          \E done \in {process_otel_export(raw_events, spans)} :
             /\ raw_events' = done.table
             /\ ingest_response' =
                   [outcome |-> IF done.raised = {} THEN "returned" ELSE "raised",
                    spans |-> spans, raised |-> done.raised, response |-> done.response]
    /\ UNCHANGED <<meter_readings, customers, collection, import_calls, deriver_log>>
    /\ UNCHANGED <<rating_vars, tier_vars, outcome_vars, race_vars, cycle_vars>>

NextIngest == ProcessOtelExport

IngestSpec == InitIngest /\ [][NextIngest]_vars

----------------------------------------------------------------------------
(* Properties of the ingestion *)

ExportStep == ingest_calls' = ingest_calls + 1

\* The span names a customer that has a row.
KnownCustomer(span_data) ==
    Get(span_data.attributes, BillingCustomerId, None) \in customers

\* The unique keys of the events a span stands for.
SpanKeys(span_data) ==
    {<<span_data.trace_id, span_data.span_id, "span_started", span_data.start_time>>}
    \cup {<<span_data.trace_id, span_data.span_id, "span_ended", t>> :
            t \in span_data.end_time}
    \cup {<<span_data.trace_id, span_data.span_id, "span_event",
             span_data.events[j].time>> : j \in DOMAIN span_data.events}

StoredOnce(table, key) == Cardinality({row \in table : EventKey(row) = key}) = 1

\* C15: ingesting an event whose (trace_id, span_id, event_type, ts) is already
\* stored is a no-op and not an error: the export does not fail, every event of
\* the export is stored exactly once, and no stored event is lost.
C15_AppendIdempotent ==
    [][(ExportStep /\ \A i \in DOMAIN ingest_response'.spans :
                         KnownCustomer(ingest_response'.spans[i]))
         => /\ ingest_response'.raised = {}
            /\ raw_events \subseteq raw_events'
            /\ \A i \in DOMAIN ingest_response'.spans :
                  \A key \in SpanKeys(ingest_response'.spans[i]) :
                     StoredOnce(raw_events', key)]_vars

\* No event of the export is stored already or comes twice in the export.
FreshExport(spans, table) ==
    /\ \A i \in DOMAIN spans : \A row \in table : EventKey(row) \notin SpanKeys(spans[i])
    /\ \A i, j \in DOMAIN spans : i # j => SpanKeys(spans[i]) \cap SpanKeys(spans[j]) = {}

RejectedSpans(spans) == {i \in DOMAIN spans : ~KnownCustomer(spans[i])}

RejectedSpanEvents(spans) ==
    UNION {{<<i, j>> : j \in DOMAIN spans[i].events} : i \in RejectedSpans(spans)}

SpansRejectedOthersStored(spans, table, response) ==
    /\ response.raised = {}
    /\ \A r \in response.response :
          Len(r.errors) = Cardinality(RejectedSpans(spans))
                            + Cardinality(RejectedSpanEvents(spans))
    /\ \A i \in DOMAIN spans :
          IF KnownCustomer(spans[i])
          THEN \A key \in SpanKeys(spans[i]) : StoredOnce(table, key)
          ELSE \A row \in table : EventKey(row) \notin SpanKeys(spans[i])

\* C16: a span or span event whose billing.customer_id is missing, no UUID, or
\* names an unknown customer is rejected: nothing is stored for it and an error
\* is reported, while the other spans of the export are processed and stored.
C16_BadCustomerRejected ==
    [][(ExportStep /\ FreshExport(ingest_response'.spans, raw_events))
         => SpansRejectedOthersStored(ingest_response'.spans, raw_events',
                                      ingest_response')]_vars

\* The same for exports in which no span of an unknown customer has a span event.
C16_RejectedWithoutForeignKey ==
    [][(/\ ExportStep
        /\ FreshExport(ingest_response'.spans, raw_events)
        /\ \A i \in DOMAIN ingest_response'.spans :
              \/ ingest_response'.spans[i].events = <<>>
              \/ Get(ingest_response'.spans[i].attributes, BillingCustomerId, None)
                    \notin UUIDTexts \ customers)
         => SpansRejectedOthersStored(ingest_response'.spans, raw_events',
                                      ingest_response')]_vars

----------------------------------------------------------------------------
(* The recording specification: SuccessFeeBilling.record_outcome_event and the *)
(* external verifications that follow it                                       *)

RecordConfigs ==
    {{},
     {SuccessFeeConfig(OT, [price_per_unit |-> Dec(2), settlement_days |-> 0])},
     {SuccessFeeConfig(OT, [price_per_unit |-> Dec(2), settlement_days |-> 1,
                            external_verification |-> TRUE,
                            external_system |-> "crm"])},
     {SuccessFeeConfig(OT, [price_per_unit |-> Dec(2), settlement_days |-> 0,
                            external_verification |-> TRUE])}}

RecordedRuns == {"run1", "run3"}

\* SuccessFeeBilling.record_outcome_event(run, outcome key, metadata, config)
RecordOutcomeEvent ==
    /\ Cardinality(outcome_verifications) < MaxOutcomes
    /\ \E workflow_run_id \in RecordedRuns, outcome_metadata \in {{}},
          success_fee_config \in RecordConfigs :
          \E done \in {record_outcome_event(outcome_verifications, workflow_run_id, OT,
                                             outcome_metadata, success_fee_config)} :
             /\ outcome_verifications' = done.table
             /\ outcome_call' = [op |-> "record_outcome_event", id |-> done.id,
                                 success_fee_config |-> success_fee_config]
    /\ UNCHANGED now
    /\ OutcomeFrame

\* SuccessFeeBilling.process_external_verification(ref, system, verified, data)
\* for the reference of a recorded run
ProcessVerificationOfRun ==
    /\ \E external_ref \in RecordedRuns, external_system \in {"crm", "internal"},
          verified \in BOOLEAN, tracked \in BOOLEAN,
          verification_data \in {EmptyMap, [reason |-> "chargeback"]} :
          \E done \in {process_external_verification(outcome_verifications, external_ref,
                                                      external_system, verified,
                                                      verification_data, tracked)} :
             /\ outcome_verifications' = done.table
             /\ outcome_call' = [op |-> "process_external_verification",
                                 external_ref |-> external_ref,
                                 external_system |-> external_system,
                                 pending |-> {v.id : v \in
                                     {w \in outcome_verifications :
                                        /\ w.external_ref = external_ref
                                        /\ w.external_system = external_system
                                        /\ w.status = "pending"}},
                                 raised |-> done.raised]
    /\ UNCHANGED now
    /\ OutcomeFrame

NextRecord ==
    \/ RecordOutcomeEvent
    \/ ProcessVerificationOfRun

RecordSpec == InitOutcome /\ [][NextRecord]_vars

----------------------------------------------------------------------------
(* Properties of record_outcome_event and process_external_verification *)

Recorded == outcome_call.op = "record_outcome_event"

RecordedOutcome == CHOOSE v \in outcome_verifications : v.id = outcome_call.id

NeedsExternalVerification(success_fee_config) ==
    \E config \in success_fee_config : config.external_verification

\* The step is a process_external_verification call for the record's reference.
VerificationCalledFor(v) ==
    /\ outcome_call'.op = "process_external_verification"
    /\ outcome_call'.external_ref = v.external_ref
    /\ outcome_call'.external_system = v.external_system

\* The record the call created has the status the config asks for.
RecordedStatus ==
    Recorded =>
      /\ \E v \in outcome_verifications : v.id = outcome_call.id
      /\ RecordedOutcome.status =
           IF NeedsExternalVerification(outcome_call.success_fee_config)
           THEN "pending" ELSE "verified"

\* A pending record keeps its status in a step that is no
\* process_external_verification call for it.
PendingKept ==
    \A v \in outcome_verifications :
       (v.status = "pending" /\ ~VerificationCalledFor(v)) => StatusKept(v)

PendingOutlivesOtherCall ==
    /\ outcome_call.op = "process_external_verification"
    /\ \E v \in outcome_verifications :
          /\ v.status = "pending"
          /\ v.external_system # outcome_call.external_system

Oldest(ids) == CHOOSE id \in ids : \A other \in ids : id <= other

\* The step is a process_external_verification call that found several pending
\* records for its (external_system, external_ref).
SeveralPendingFound ==
    /\ outcome_call'.op = "process_external_verification"
    /\ Cardinality(outcome_call'.pending) > 1

\* C22: when several pending records exist for the same (external_system,
\* external_ref), process_external_verification updates the oldest such record
\* only, without error; later calls with the same ref change no record.
C22_OldestOnly ==
    [][SeveralPendingFound =>
         /\ outcome_call'.raised = {}
         /\ \A v \in outcome_verifications :
               \/ v.id = Oldest(outcome_call'.pending) /\ ~StatusKept(v)
               \/ v.id # Oldest(outcome_call'.pending) /\ StatusKept(v)]_vars

----------------------------------------------------------------------------
(* The concurrent upsert specification: _transform_and_store_metrics calls that *)
(* run at the same time, each in its own session (READ COMMITTED)               *)

MaxTasks == 2

Tasks == 1..MaxTasks

AllDone == \A t \in Tasks : tasks[t].pc = "done"

\* The upserts still to run: each stores total_value for (Customer, api.calls,
\* window_start); stored_before is the reading the table held at the start.
UpsertTasks(stored_before) ==
    [Tasks -> [pc : {"start"}, window_start : {0, 1}, total_value : {Dec(1), Dec(2)},
               existing : {{}}, raised : {{}}, stored_before : {stored_before}]]

InitConcurrentUpsert ==
    /\ customers = {Customer, OtherCustomer}
    /\ meter_readings \in {{}, {ImportedApiCalls}}
    /\ tasks \in UpsertTasks(meter_readings)
    /\ CycleIdle
    /\ collection = {}
    /\ import_calls = 0
    /\ RatingIdle
    /\ TierIdle
    /\ DeriverIdle
    /\ OutcomeIdle
    /\ IngestIdle

UpsertFrame ==
    UNCHANGED <<rating_vars, tier_vars, import_vars, deriver_vars, outcome_vars,
                ingest_vars, cycle_vars>>

\* existing = await self._get_existing_meter_reading(...): the committed rows the
\* session's SELECT sees
GetExistingMeterReading(t) ==
    /\ tasks[t].pc = "start"
    /\ \E existing \in {_get_existing_meter_reading(meter_readings, Customer, API,
                                                    tasks[t].window_start)} :
          tasks' = [tasks EXCEPT
                      ![t].pc = IF Cardinality(existing) > 1 THEN "done" ELSE "read",
                      ![t].existing = existing,
                      ![t].raised = IF Cardinality(existing) > 1
                                    THEN {"MultipleResultsFound"} ELSE {}]
    /\ UNCHANGED meter_readings
    /\ UpsertFrame

\* existing.value += total_value, or session.add(MeterReading(...)); then
\* session.commit(): the UPDATE writes the value computed from the row as it was
\* read, the INSERT fails on the unique key of a row committed meanwhile.
CommitMeterReading(t) ==
    /\ tasks[t].pc = "read"
    /\ IF tasks[t].existing # {}
       THEN /\ meter_readings' =
                 {IF \E e \in tasks[t].existing : ReadingKey(e) = ReadingKey(r)
                  THEN [r EXCEPT !.value =
                          (CHOOSE e \in tasks[t].existing : TRUE).value
                            + tasks[t].total_value]
                  ELSE r : r \in meter_readings}
            /\ tasks' = [tasks EXCEPT ![t].pc = "done"]
       ELSE \E done \in {CommitReadings(meter_readings,
                            {[customer_id |-> Customer, meter_key |-> API,
                              window_start |-> tasks[t].window_start,
                              window_end |-> tasks[t].window_start + 1,
                              value |-> tasks[t].total_value,
                              src_event_ids |-> <<>>]})} :
               /\ meter_readings' = done.table
               /\ tasks' = [tasks EXCEPT ![t].pc = "done", ![t].raised = done.raised]
    /\ UpsertFrame

NextConcurrentUpsert ==
    \E t \in Tasks :
       \/ GetExistingMeterReading(t)
       \/ CommitMeterReading(t)

ConcurrentUpsertSpec == InitConcurrentUpsert /\ [][NextConcurrentUpsert]_vars

----------------------------------------------------------------------------
(* Properties of concurrent upserts *)

UpsertKeys == {tasks[t].window_start : t \in Tasks}

RECURSIVE Contributed(_, _)
Contributed(ts, window_start) ==
    IF ts = {} THEN 0
    ELSE LET t == CHOOSE x \in ts : TRUE
         IN (IF tasks[t].window_start = window_start THEN tasks[t].total_value ELSE 0)
            + Contributed(ts \ {t}, window_start)

StoredBefore(window_start) ==
    SumValue({r \in UNION {tasks[t].stored_before : t \in Tasks} :
                r.window_start = window_start})

\* C23: concurrent upserts of the same (customer, meter, window) serialize: under
\* every interleaving the final value is the sum of both contributions, exactly
\* one row exists for the key, and no writer fails.
C23_UpsertsSerialize ==
    (tasks # <<>> /\ AllDone) =>
      /\ \A t \in Tasks : tasks[t].raised = {}
      /\ \A window_start \in UpsertKeys :
            LET rows == _get_existing_meter_reading(meter_readings, Customer, API,
                                                    window_start)
            IN /\ Cardinality(rows) = 1
               /\ \A r \in rows :
                     r.value = StoredBefore(window_start)
                                 + Contributed(Tasks, window_start)

\* Of two upserts of one window, one read the row the other had committed.
ReadInTurn ==
    \A t \in Tasks : \A u \in Tasks \ {t} :
       tasks[t].window_start = tasks[u].window_start =>
         /\ tasks[t].existing # {} \/ tasks[u].existing # {}
         /\ tasks[t].existing # tasks[u].existing

\* Upserts that do not overlap add up in one row.
C23_SequentialUpserts ==
    (tasks # <<>> /\ AllDone /\ ReadInTurn) =>
      /\ \A t \in Tasks : tasks[t].raised = {}
      /\ \A window_start \in UpsertKeys :
            LET rows == _get_existing_meter_reading(meter_readings, Customer, API,
                                                    window_start)
            IN /\ Cardinality(rows) = 1
               /\ \A r \in rows :
                     r.value = StoredBefore(window_start)
                                 + Contributed(Tasks, window_start)

----------------------------------------------------------------------------
(* The concurrent rating specification: _rate_customer_period_impl calls that *)
(* run at the same time, each in its own session                              *)

\* RatingService._get_default_policy; RatingPolicy has no field success_fees.
\* Unit prices below 1/Scale are 0 at the scale of the model.
_get_default_policy ==
    [precedence |-> "work_over_edges",
     edges_included_per_work |->
         WF :> ((LLM :> Dec(50000)) @@ (API :> Dec(10)) @@ (COMPUTE :> Dec(30000))),
     exclusions |-> <<[when |-> {WF}, drop |-> <<API>>]>>,
     overage_spill |-> TRUE,
     meter_pricing |->
         (WF :> MeterPricing(WF, Dec(100), <<Tier(0, {Dec(1000)}, Dec(1) \div 2, 0),
                                             Tier(Dec(1000), {}, (Dec(1) * 4) \div 10, 0)>>))
         @@ (LLM :> MeterPricing(LLM, Dec(1000000), <<Tier(0, {}, 0, 0)>>))
         @@ (API :> MeterPricing(API, Dec(10000), <<Tier(0, {}, 0, 0)>>)),
     base_fee |-> Dec(99), spend_cap |-> {Dec(10000)}, discount_percent |-> 0,
     success_fees |-> {}]

\* The RatedUsage row _store_rated_usage builds for a result.
NewRatedUsage(res) ==
    RatedUsage([customer_id |-> res.customer_id,
                period_start |-> fromisoformat(res.period_start),
                period_end |-> fromisoformat(res.period_end),
                total_amount |-> res.total,
                line_items_json |-> line_items_json(res),
                cogs_amount |-> res.cogs_estimate,
                margin_amount |-> res.margin_estimate])

\* SELECT ... FROM rated_usage WHERE customer_id, period_start, period_end
ExistingRatedUsageOf(table, customer_id, period_start, period_end) ==
    {row \in table : /\ row.customer_id = {customer_id}
                     /\ row.period_start = {period_start}
                     /\ row.period_end = {period_end}}

RatingTasks ==
    [Tasks -> [pc : {"start"}, customer_id : {Customer, OtherCustomer},
               existing : {{}}, result : {NoResult}, raised : {{}}]]

InitConcurrentRating ==
    /\ meter_readings \in
         {ForeignRows \cup UsageRows(WF, usage.wf) \cup UsageRows(LLM, usage.llm) :
          usage \in [wf : {{}, {2}}, llm : {{}, {3}}]}
    /\ policy = _get_default_policy
    /\ rated_usage \in {{}, {ExistingRatedUsage}}
    /\ outcome_verifications = SettledOutcomes
    /\ workflow_runs = SettledRuns
    /\ cost_records = CostRecords
    /\ now = PeriodEnd
    /\ result = NoResult
    /\ store_result = {}
    /\ store_calls = 0
    /\ tasks \in RatingTasks
    /\ CycleIdle
    /\ TierIdle
    /\ ImportIdle
    /\ DeriverIdle
    /\ OutcomeIdle
    /\ IngestIdle

RatingFrame ==
    UNCHANGED <<meter_readings, outcome_verifications, workflow_runs, cost_records, now,
                policy, result, store_result, store_calls, tier_vars, import_vars,
                deriver_vars, outcome_vars, ingest_vars, cycle_vars>>

\* _rate_customer_period_impl, force_reprocess = False: "Check if already
\* processed".  The answer for an existing row reads existing.total_amount, an
\* attribute RatedUsage does not have.
CheckAlreadyProcessed(t) ==
    /\ tasks[t].pc = "start"
    /\ \E existing \in {ExistingRatedUsageOf(rated_usage, tasks[t].customer_id,
                                             PeriodStart, PeriodEnd)} :
          tasks' = [tasks EXCEPT
                      ![t].pc = IF existing = {} THEN "checked" ELSE "done",
                      ![t].raised = IF existing = {} THEN {}
                                    ELSE IF Cardinality(existing) > 1
                                    THEN {"MultipleResultsFound"}
                                    ELSE {"AttributeError"}]
    /\ UNCHANGED rated_usage
    /\ RatingFrame

\* rate_and_store up to the SELECT of _store_rated_usage: the period is rated
\* under the default policy and the stored row is looked for.
RateAndSelectExisting(t) ==
    /\ tasks[t].pc = "checked"
    /\ \E res \in {rate_customer_period(tasks[t].customer_id, PeriodStart, PeriodEnd,
                                        _get_default_policy)} :
       \E existing \in {ExistingRatedUsageOf(rated_usage, tasks[t].customer_id,
                                             PeriodStart, PeriodEnd)} :
          tasks' = [tasks EXCEPT
                      ![t].pc = IF res.outcome = "raised" THEN "done" ELSE "selected",
                      ![t].result = res,
                      ![t].existing = existing,
                      ![t].raised = res.raised]
    /\ UNCHANGED rated_usage
    /\ RatingFrame

\* _store_rated_usage from the SELECT's answer on: the existing row is assigned
\* attributes it has no field for, or the new row is added; session.commit().
StoreAndCommit(t) ==
    /\ tasks[t].pc = "selected"
    /\ \E done \in {IF tasks[t].existing # {}
                    THEN [table |-> rated_usage, raised |-> {"ValueError"}]
                    ELSE CommitRatedUsage(rated_usage, NewRatedUsage(tasks[t].result))} :
          /\ rated_usage' = done.table
          /\ tasks' = [tasks EXCEPT ![t].pc = "done", ![t].raised = done.raised]
    /\ RatingFrame

NextConcurrentRating ==
    \E t \in Tasks :
       \/ CheckAlreadyProcessed(t)
       \/ RateAndSelectExisting(t)
       \/ StoreAndCommit(t)

ConcurrentRatingSpec == InitConcurrentRating /\ [][NextConcurrentRating]_vars

----------------------------------------------------------------------------
(* Properties of concurrent rating *)

\* C24: under every interleaving of two concurrent rate_and_store calls for the
\* same (customer, period) both complete and exactly one RatedUsage row for the
\* key results; calls for different customers are not blocked.
C24_RatingSerialized ==
    (tasks # <<>> /\ AllDone) =>
      \A t \in Tasks :
         /\ tasks[t].raised = {}
         /\ Cardinality(ExistingRatedUsageOf(rated_usage, tasks[t].customer_id,
                                             PeriodStart, PeriodEnd)) = 1

\* What the calls leave behind: never a second row for a key.
C24_AtMostOneRow ==
    \A customer_id \in {Customer, OtherCustomer} :
       Cardinality(ExistingRatedUsageOf(rated_usage, customer_id,
                                        PeriodStart, PeriodEnd)) <= 1

----------------------------------------------------------------------------
(* The concurrent verification specification: verify_outcome calls that run at *)
(* the same time on pending records                                            *)

PendingOutcomes ==
    {create_outcome_verification({}, "run1", OT, {}, {}, 0, {}),
     create_outcome_verification(
         create_outcome_verification({}, "run1", OT, {}, {}, 0, {}),
         "run1", OD, {"crm"}, {"ref1"}, 0, {})}

VerifyTasks ==
    [Tasks -> [pc : {"start"}, verification_id : 1..MaxOutcomes, verified : BOOLEAN,
               returned : {{}}, raised : {{}}]]

InitConcurrentVerify ==
    /\ now = 0
    /\ outcome_verifications \in PendingOutcomes
    /\ workflow_runs = OutcomeRuns
    /\ outcome_call = NoCall
    /\ tasks \in VerifyTasks
    /\ CycleIdle
    /\ meter_readings = {}
    /\ rated_usage = {}
    /\ cost_records = {}
    /\ policy = NoPolicy
    /\ result = NoResult
    /\ store_result = {}
    /\ store_calls = 0
    /\ TierIdle
    /\ ImportIdle
    /\ DeriverIdle
    /\ IngestIdle

VerifyFrame ==
    UNCHANGED <<meter_readings, rated_usage, workflow_runs, cost_records, now, policy,
                result, store_result, store_calls, tier_vars, import_vars, deriver_vars,
                outcome_vars, ingest_vars, cycle_vars>>

\* verify_outcome: UPDATE ... WHERE id = verification_id; session.commit()
UpdateStatus(t) ==
    /\ tasks[t].pc = "start"
    /\ outcome_verifications' =
         verify_outcome(outcome_verifications, tasks[t].verification_id,
                        tasks[t].verified,
                        IF tasks[t].verified THEN {} ELSE {"disputed"}).table
    /\ tasks' = [tasks EXCEPT ![t].pc = "updated"]
    /\ VerifyFrame

\* verify_outcome: "Fetch updated record", result.scalar_one()
FetchUpdated(t) ==
    /\ tasks[t].pc = "updated"
    /\ \E found \in {{v \in outcome_verifications : v.id = tasks[t].verification_id}} :
          tasks' = [tasks EXCEPT
                      ![t].pc = "done",
                      ![t].returned = found,
                      ![t].raised = IF found = {} THEN {"NoResultFound"} ELSE {}]
    /\ UNCHANGED outcome_verifications
    /\ VerifyFrame

NextConcurrentVerify ==
    \E t \in Tasks :
       \/ UpdateStatus(t)
       \/ FetchUpdated(t)

ConcurrentVerifySpec == InitConcurrentVerify /\ [][NextConcurrentVerify]_vars

----------------------------------------------------------------------------
(* Properties of concurrent verification *)

StatusAsked(t) == IF tasks[t].verified THEN "verified" ELSE "reversed"

\* The call changed the record and was told so.
TookEffect(t) ==
    /\ tasks[t].raised = {}
    /\ \E v \in outcome_verifications :
          v.id = tasks[t].verification_id /\ v.status = StatusAsked(t)

\* C25: when two verify calls race on the same pending record, exactly one takes
\* effect and the other is detected as a lost update and receives a stale-state
\* error.
C25_CompareAndSet ==
    (tasks # <<>> /\ AllDone) =>
      \A t \in Tasks : \A u \in Tasks \ {t} :
         (/\ tasks[t].verification_id = tasks[u].verification_id
          /\ \E v \in outcome_verifications : v.id = tasks[t].verification_id) =>
           \/ TookEffect(t) /\ tasks[u].raised # {}
           \/ TookEffect(u) /\ tasks[t].raised # {}

\* What a call is told: the record as the last committed UPDATE left it.
C25_ReturnsStoredRecord ==
    \A t \in DOMAIN tasks :
       (tasks[t].pc = "done" /\ tasks[t].raised = {}) =>
         \A v \in tasks[t].returned : v.status \in {"verified", "reversed"}

----------------------------------------------------------------------------
(* The deriver specification: batches and reprocessing over stored raw events *)

MaxDeriverCalls == 2

\* Events of two customers: in one window, on the boundary between two batches
\* of a reprocessing, after it, and one that takes tokens back.
EventPool ==
    {RawEvent(1, Customer, 1, "span_ended",
              [edge |-> [llm_tokens_input |-> 2, llm_tokens_output |-> 1]]),
     RawEvent(2, Customer, 3, "span_ended",
              [work |-> [workflow_definition |-> "triage"], status |-> "OK"]),
     RawEvent(3, Customer, batch_minutes, "span_started", [edge |-> [llm_tokens |-> 1]]),
     RawEvent(4, Customer, batch_minutes + 2, "outcome",
              [event_name |-> <<"ticket", "resolved">>]),
     RawEvent(5, OtherCustomer, 1, "span_ended",
              [edge |-> [compute_ms |-> 5], work |-> [step_key |-> "fetch"],
               status |-> "ERROR"]),
     RawEvent(6, Customer, 4, "counter", [edge |-> [llm_tokens |-> 0 - 1]])}

\* (customer_id, from_time, to_time) of the process_events_batch calls: all
\* events, one customer up to a time, and events from a time on.
BatchCalls ==
    {<<{}, {}, {}>>, <<{Customer}, {}, {batch_minutes}>>, <<{}, {3}, {}>>,
     <<{Customer}, {batch_minutes}, {}>>}

\* (customer_id, start_date, end_date) of the reprocess_customer_period calls:
\* one window, one batch, two batches, and a start inside a window.
ReprocessCalls ==
    {<<Customer, 0, WindowMinutes>>, <<Customer, 0, batch_minutes>>,
     <<Customer, 0, batch_minutes + WindowMinutes>>, <<Customer, 0, 2 * batch_minutes>>,
     <<Customer, 3, batch_minutes + WindowMinutes>>,
     <<OtherCustomer, 0, WindowMinutes>>}

Call(op, customer_id, from_time, to_time, raised) ==
    [op |-> op, customer_id |-> customer_id, from_time |-> from_time,
     to_time |-> to_time, raised |-> raised]

InitDeriver ==
    /\ raw_events \in SUBSET EventPool
    /\ deriver_log = <<>>
    /\ meter_readings = {}
    /\ RatingIdle
    /\ TierIdle
    /\ ImportIdle
    /\ OutcomeIdle
    /\ IngestIdle
    /\ RaceIdle
    /\ CycleIdle

\* EventProcessor.process_events_batch(customer_id, from_time, to_time)
ProcessEventsBatch ==
    /\ Len(deriver_log) < MaxDeriverCalls
    /\ \E call \in BatchCalls :
          LET batch == process_events_batch(meter_readings, call[1], call[2], call[3])
          IN /\ meter_readings' = batch.table
             /\ deriver_log' = Append(deriver_log,
                                      Call("process_events_batch", call[1], call[2],
                                           call[3], batch.raised))
    /\ UNCHANGED <<raw_events, rating_vars, tier_vars, import_vars>>
    /\ UNCHANGED <<outcome_vars, ingest_vars, race_vars, cycle_vars>>

\* EventProcessor.reprocess_customer_period(customer_id, start_date, end_date)
ReprocessCustomerPeriod ==
    /\ Len(deriver_log) < MaxDeriverCalls
    /\ \E call \in ReprocessCalls :
          LET done == reprocess_customer_period(meter_readings, call[1], call[2],
                                                call[3])
          IN /\ meter_readings' = done.table
             /\ deriver_log' = Append(deriver_log,
                                      Call("reprocess_customer_period", {call[1]},
                                           {call[2]}, {call[3]}, done.raised))
    /\ UNCHANGED <<raw_events, rating_vars, tier_vars, import_vars>>
    /\ UNCHANGED <<outcome_vars, ingest_vars, race_vars, cycle_vars>>

NextDeriver == ProcessEventsBatch \/ ReprocessCustomerPeriod

DeriverSpec == InitDeriver /\ [][NextDeriver]_vars

----------------------------------------------------------------------------
(* Properties of the deriver *)

\* The readings a first derivation of all stored events makes.
FirstDerivation == process_events_batch({}, {}, {}, {}).table

FirstDerivationThenReprocess ==
    /\ Len(deriver_log) = 2
    /\ deriver_log[1] = Call("process_events_batch", {}, {}, {}, {})
    /\ deriver_log[2].op = "reprocess_customer_period"

\* C9: for any customer and period, reprocess_customer_period after a first
\* derivation yields the same MeterReadings, keys and values, as that derivation.
C9_ReprocessIdempotent ==
    FirstDerivationThenReprocess => meter_readings = FirstDerivation

EventOf(id) == {e \in raw_events : e.id = id}

\* C10: every MeterReading the deriver emits has value >= 0 and lists in
\* src_event_ids only ids of RawEvents of the reading's customer whose ts lies in
\* [window_start, window_end).
C10_ReadingsSound ==
    \A r \in meter_readings :
       /\ r.value >= 0
       /\ \A i \in 1..Len(r.src_event_ids) :
             /\ EventOf(r.src_event_ids[i]) # {}
             /\ \A e \in EventOf(r.src_event_ids[i]) :
                   /\ e.customer_id = r.customer_id
                   /\ r.window_start <= e.ts
                   /\ e.ts < r.window_end

\* A reading made from several events, one of which takes usage back, while
\* another customer has an event in the same window and the customer has events
\* in other windows.
C10_Witness ==
    \E r \in meter_readings :
       /\ Len(r.src_event_ids) >= 3
       /\ r.value > 0
       /\ \E e \in raw_events :
             /\ e.id \in SeqRange(r.src_event_ids)
             /\ EdgeAmount(e, r.meter_key) < 0
       /\ \E e \in raw_events :
             e.customer_id # r.customer_id /\ WindowStart(e.ts) = r.window_start
       /\ \E e \in raw_events :
             e.customer_id = r.customer_id /\ WindowStart(e.ts) # r.window_start

----------------------------------------------------------------------------
(* The daily rating specification: the periods of the hourly rate_daily_usage
   cycle over stored readings of several days *)

\* Times are minutes since midnight of day 0.
MinutesPerDay == 24 * 60

\* The beat schedule runs rate_daily_usage every hour.
ClockStep == 60

MaxDays == 3

MaxDailyRuns == 2

\* datetime.date()
date(ts) == ts \div MinutesPerDay

\* datetime.min.time(): 00:00
min_time == 0

\* datetime.max.time(): 23:59:59.999999, the last instant of a day; on the
\* minute clock of the model the last minute, which compares with every window
\* bound (a whole minute) as 23:59:59.999999 does.
max_time == MinutesPerDay - 1

\* datetime.combine(date, time)
combine(day, time) == day * MinutesPerDay + time

\* Readings of the customer: the first and the last deriver window of day 0 and
\* of day 1, the last one-minute window of day 0 stored by the metrics import,
\* and a window in the middle of day 1; one reading of another customer.
DailyReadingPool ==
    {MeterReading(Customer, LLM, 0, Dec(1), <<>>),
     MeterReading(Customer, LLM, MinutesPerDay - WindowMinutes, Dec(2), <<>>),
     MeterReading(Customer, LLM, MinutesPerDay, Dec(3), <<>>),
     MeterReading(Customer, LLM, 2 * MinutesPerDay - WindowMinutes, Dec(4), <<>>),
     [customer_id |-> Customer, meter_key |-> API,
      window_start |-> MinutesPerDay - 1, window_end |-> MinutesPerDay,
      value |-> Dec(1), src_event_ids |-> <<>>],
     MeterReading(Customer, WF, MinutesPerDay + 12 * 60, Dec(1), <<>>),
     MeterReading(OtherCustomer, LLM, 0, Dec(7), <<>>)}

InitDaily ==
    /\ meter_readings \in SUBSET DailyReadingPool
    /\ now = MinutesPerDay
    /\ daily_runs = <<>>
    /\ customers = {Customer, OtherCustomer}
    /\ collection = {}
    /\ import_calls = 0
    /\ rated_usage = {}
    /\ outcome_verifications = {}
    /\ workflow_runs = {}
    /\ cost_records = {}
    /\ policy = NoPolicy
    /\ result = NoResult
    /\ store_result = {}
    /\ store_calls = 0
    /\ TierIdle
    /\ DeriverIdle
    /\ OutcomeIdle
    /\ IngestIdle
    /\ RaceIdle

DailyFrame ==
    UNCHANGED <<meter_readings, rated_usage, outcome_verifications, workflow_runs,
                cost_records, policy, result, store_result, store_calls, tier_vars,
                import_vars, deriver_vars, outcome_vars, ingest_vars, race_vars>>

\* _rate_daily_usage_impl(): the bounds of yesterday, then "Get all active
\* customers" with select(Customer).where(Customer.active); Customer declares no
\* attribute active, so the call ends there and rates no customer.
RateDailyUsage ==
    /\ Len(daily_runs) < MaxDailyRuns
    /\ LET yesterday == date(now) - 1
           period_start == combine(yesterday, min_time)
           period_end == combine(yesterday, max_time)
       IN daily_runs' = Append(daily_runs,
                               [period_start |-> period_start,
                                period_end |-> period_end,
                                raised |-> {"AttributeError"}])
    /\ UNCHANGED now
    /\ DailyFrame

\* An hour passes until the next run of the schedule.
HourPasses ==
    /\ now + ClockStep <= MaxDays * MinutesPerDay
    /\ now' = now + ClockStep
    /\ UNCHANGED daily_runs
    /\ DailyFrame

NextDaily == RateDailyUsage \/ HourPasses

DailySpec == InitDaily /\ [][NextDaily]_vars

----------------------------------------------------------------------------
(* Properties of the daily periods *)

\* The rows _load_meter_readings selects for the customer with the bounds of a run.
LoadedBy(run) == _load_meter_readings_rows(Customer, run.period_start, run.period_end)

\* The days whose period the cycle has computed.
DaysRated == {date(daily_runs[i].period_start) : i \in 1..Len(daily_runs)}

\* The distinct periods the cycle has computed.
DailyPeriods ==
    {[period_start |-> daily_runs[i].period_start,
      period_end |-> daily_runs[i].period_end] : i \in 1..Len(daily_runs)}

\* The window of the reading lies within the day: [window_start, window_end) is
\* inside [midnight, next midnight).
WithinDay(r, day) ==
    /\ r.window_start >= combine(day, min_time)
    /\ r.window_end <= combine(day + 1, min_time)

\* C29: with the bounds the daily cycle computes for consecutive days, every
\* reading of the customer whose window lies within a day is selected by
\* _load_meter_readings for exactly one daily period: none is rated in two
\* periods and none is skipped by all of them.
C29_DailyPeriodsPartition ==
    \A r \in meter_readings :
       \A day \in DaysRated :
          (r.customer_id = Customer /\ day + 1 \in DaysRated /\ WithinDay(r, day)) =>
             Cardinality({p \in DailyPeriods : r \in LoadedBy(p)}) = 1

\* No reading is selected for two daily periods.
C29_NoReadingInTwoPeriods ==
    \A r \in meter_readings : Cardinality({p \in DailyPeriods : r \in LoadedBy(p)}) <= 1

\* Every reading within a rated day whose window ends before the next midnight
\* is selected for the period of that day.
C29_AllButLastWindow ==
    \A r \in meter_readings :
       \A day \in DaysRated :
          (/\ r.customer_id = Customer
           /\ WithinDay(r, day)
           /\ r.window_end < combine(day + 1, min_time)) =>
             \E p \in DailyPeriods :
                date(p.period_start) = day /\ r \in LoadedBy(p)

----------------------------------------------------------------------------
(* The recent-events specification: the process_recent_events cycle, run every
   five minutes over the events of the last two hours, while events arrive *)

\* hours_back = 2, in minutes
hours_back_minutes == 2 * 60

\* The beat schedule runs process_recent_events every 300 seconds.
CycleMinutes == 5

MaxCycles == 26

\* Two events of one customer in the window [0, 5), the second also in the
\* range of a cycle whose cutoff falls inside that window, and an event of
\* another customer in the next window.
RecentEventPool ==
    {RawEvent(1, Customer, 1, "span_ended",
              [edge |-> [llm_tokens_input |-> 2, llm_tokens_output |-> 1]]),
     RawEvent(2, Customer, 4, "span_ended",
              [edge |-> [llm_tokens |-> 1],
               work |-> [workflow_definition |-> "triage"], status |-> "OK"]),
     RawEvent(3, OtherCustomer, 7, "outcome",
              [event_name |-> <<"ticket", "resolved">>])}

\* The first run of the cycle is at minute 5 or, off the window boundaries, 8.
InitRecent ==
    /\ raw_events = {}
    /\ deriver_log = <<>>
    /\ meter_readings = {}
    /\ now \in {CycleMinutes, CycleMinutes + 3}
    /\ rated_usage = {}
    /\ outcome_verifications = {}
    /\ workflow_runs = {}
    /\ cost_records = {}
    /\ policy = NoPolicy
    /\ result = NoResult
    /\ store_result = {}
    /\ store_calls = 0
    /\ TierIdle
    /\ ImportIdle
    /\ OutcomeIdle
    /\ IngestIdle
    /\ RaceIdle
    /\ CycleIdle

RecentFrame ==
    UNCHANGED <<rated_usage, outcome_verifications, workflow_runs, cost_records,
                policy, result, store_result, store_calls, tier_vars, import_vars,
                outcome_vars, ingest_vars, race_vars, cycle_vars>>

\* An event with a timestamp up to now is stored in raw_events, at once or late.
EventArrives ==
    /\ \E e \in RecentEventPool \ raw_events :
          /\ e.ts <= now
          /\ raw_events' = raw_events \cup {e}
    /\ UNCHANGED <<meter_readings, deriver_log, now>>
    /\ RecentFrame

\* process_recent_events(hours_back = 2) with its session, and the wait for the
\* next run of the schedule
ProcessRecentEvents ==
    /\ Len(deriver_log) < MaxCycles
    /\ \E batch \in {process_events_batch(meter_readings, {},
                                          {now - hours_back_minutes}, {})} :
          /\ meter_readings' = batch.table
          /\ deriver_log' = Append(deriver_log,
                                   Call("process_recent_events", {},
                                        {now - hours_back_minutes}, {}, batch.raised))
    /\ now' = now + CycleMinutes
    /\ UNCHANGED raw_events
    /\ RecentFrame

NextRecent == EventArrives \/ ProcessRecentEvents

RecentSpec == InitRecent /\ [][NextRecent]_vars

----------------------------------------------------------------------------
(* Properties of the recent-events cycle *)

\* The stored events a reading lists in src_event_ids, in that order.
SourceEvents(r) ==
    [i \in 1..Len(r.src_event_ids) |->
       CHOOSE e \in raw_events : e.id = r.src_event_ids[i]]

\* The reading counts each of the events it lists once: no id is listed twice
\* and the value is the sum of what the listed events add to the meter.
CountsEachEventOnce(r) ==
    /\ \A i, j \in 1..Len(r.src_event_ids) :
          r.src_event_ids[i] = r.src_event_ids[j] => i = j
    /\ \A i \in 1..Len(r.src_event_ids) :
          \E e \in raw_events : e.id = r.src_event_ids[i]
    /\ r.value = Dec(IF r.meter_key \in edge_aggregates
                     THEN EdgeAggregate(SourceEvents(r), 1, r.meter_key)
                     ELSE WorkAggregate(SourceEvents(r), 1, r.meter_key))

\* No (customer, meter, window) has two readings, and every reading counts each
\* of its events once.
CountedAtMostOnce ==
    /\ \A r1 \in meter_readings :
          \A r2 \in meter_readings : ReadingKey(r1) = ReadingKey(r2) => r1 = r2
    /\ \A r \in meter_readings : CountsEachEventOnce(r)

\* A step leaves every stored reading as it is.
ReadingsKept == meter_readings \subseteq meter_readings'

\* C28: across successive runs of the recent-events cycle each RawEvent is
\* counted into the readings of its (customer, window) at most once: a later
\* cycle that scans an already derived event neither adds its contribution a
\* second time nor creates a second reading for the same (customer, meter,
\* window).
C28_DerivedAtMostOnce == [](CountedAtMostOnce) /\ [][ReadingsKept]_vars

\* A later cycle has scanned an event that an earlier cycle derived, together
\* with an event of the same window that arrived in between: its commit was
\* refused and the readings of the window still hold the first event alone.
C28_Witness ==
    /\ \E i \in 1..Len(deriver_log) :
          \E j \in 1..Len(deriver_log) :
             /\ i < j
             /\ deriver_log[i].raised = {}
             /\ deriver_log[j].raised = {"IntegrityError"}
    /\ \E r \in meter_readings :
          /\ r.src_event_ids = <<1>>
          /\ \E e \in raw_events : e.id = 2 /\ WindowKey(e)[2] = r.window_start

====
